---- MODULE Spec2Model ----
(***************************************************************************)
(* Model of the vyotiq-agent Rust backend (rust-backend/src): the lexical  *)
(* index manager (indexer.rs), the background indexing triggers            *)
(* (routes/search.rs, routes/workspace.rs, server.rs), the file watcher    *)
(* (watcher.rs) and the workspace catalog (workspace.rs).                  *)
(*                                                                         *)
(* One workspace is modelled in the indexing specification (Spec); its id  *)
(* is implicit.  Paths are sequences of path components.                   *)
(***************************************************************************)
EXTENDS Integers, Sequences, FiniteSets, TLC

\* ------------------------------------------------------------------ bounds

\* Task slots of the tokio runtime for spawned background indexing tasks.
MaxIndexTasks == 2
\* Task slots for spawned incremental reindex tasks.
MaxReindexTasks == 1
\* The model's clock stops advancing here (milliseconds).
MaxTime == 5000

IndexTasks == 1..MaxIndexTasks
ReindexTasks == 1..MaxReindexTasks

\* ------------------------------------------------- files and path filter

\* config.rs: SUPPORTED_EXTENSIONS
SUPPORTED_EXTENSIONS ==
    { "ts", "tsx", "js", "jsx", "mjs", "cjs",
      "rs", "py", "go", "java", "c", "cpp", "h", "hpp",
      "cs", "rb", "php", "swift", "kt", "scala",
      "html", "css", "scss", "less", "sass",
      "json", "yaml", "yml", "toml", "xml",
      "md", "mdx", "txt", "rst",
      "sql", "graphql", "gql",
      "sh", "bash", "zsh", "fish", "ps1", "bat", "cmd",
      "dockerfile", "makefile",
      "vue", "svelte", "astro",
      "lua", "zig", "nim", "dart", "elixir", "ex", "exs",
      "r", "jl", "clj", "cljs", "cljc", "erl", "hrl",
      "tf", "hcl", "proto",
      "env", "ini", "cfg", "conf" }

is_supported_extension(ext) == ext \in SUPPORTED_EXTENSIONS

\* indexer.rs is_build_or_output_dir: the exact-name list
EXCLUDED_DIRECTORY_NAMES ==
    { "node_modules", ".git", "target", "dist", "build", "out", ".next",
      ".nuxt", ".output", ".vite", ".turbo", ".svelte-kit", ".parcel-cache",
      "__pycache__", ".tox", ".mypy_cache", ".pytest_cache", ".ruff_cache",
      "coverage", ".nyc_output", ".cache", "vendor", ".gradle", ".maven",
      ".terraform", ".eggs", ".vscode", ".idea", ".angular", ".expo",
      ".vercel", ".netlify", ".serverless", ".aws-sam", "__generated__",
      ".cargo" }

\* The canonical root of the modelled workspace.
WorkspaceRoot == <<"ws">>

\* The workspace-relative paths that files may appear at.
RelPaths == { <<"a.rs">>, <<"b.rs">> }

\* Path::join of the workspace root with a relative path.
JoinPath(root, rel) == root \o rel

\* Path::strip_prefix(root), for a path under root.
StripPrefix(path, root) == SubSeq(path, Len(root) + 1, Len(path))

Files == { JoinPath(WorkspaceRoot, r) : r \in RelPaths }

\* The files that come, change and go in the specifications of one changing
\* file; the other path stays empty there.
ChangingFiles == { JoinPath(WorkspaceRoot, <<"a.rs">>) }

\* Path::file_name
FileName(path) == path[Len(path)]

\* Path::extension, lowercased, for the file names of the model.
Extension(path) ==
    CASE FileName(path) = "a.rs" -> "rs"
      [] FileName(path) = "b.rs" -> "rs"
      [] OTHER -> ""

\* The names is_indexable accepts whatever their extension.
SpecialFileNames ==
    { "dockerfile", "makefile", "cmakelists.txt", "cargo.toml", "package.json",
      "tsconfig.json", "pyproject.toml", ".gitignore", ".eslintrc",
      ".prettierrc", "readme", "license", "changelog", "contributing" }

is_indexable(path) ==
    \/ is_supported_extension(Extension(path))
    \/ FileName(path) \in SpecialFileNames

\* A component that ends with ".egg-info" (none of the model's components does).
EndsWithEggInfo(name) == FALSE

is_build_or_output_dir(path) ==
    \E i \in 1..Len(path) :
        path[i] \in EXCLUDED_DIRECTORY_NAMES \/ EndsWithEggInfo(path[i])

\* The workspace's .gitignore lists the directory gen/: the walker of
\* index_workspace (git_ignore(true)) does not yield files under it.
GitIgnored(path) == \E i \in 1..Len(path) : path[i] = "gen"

\* File contents.  A content is known by its name; its text is a sequence of
\* lines, each given by its length in bytes.
Contents == { "c1", "c2" }
Absent == "absent"

\* The number of lines of the content "long", the bytes of the one-line
\* contents "big" and "huge".
LongLines == 33
LongLineBytes == 1023
BigBytes == 5000000
HugeBytes == 11000000

\* The contents the vector pipeline meets.
VecContents == { "c1", "c2", "long", "big", "huge" }

\* content.lines(): the length of each line
Lines(c) ==
    CASE c = "c1" -> << 10 >>
      [] c = "c2" -> << 12 >>
      [] c = "long" -> [ i \in 1..LongLines |-> LongLineBytes ]
      [] c = "big" -> << BigBytes >>
      [] c = "huge" -> << HugeBytes >>
      [] OTHER -> << >>

\* The bytes of lines joined by newlines.
RECURSIVE JoinedLen(_)
JoinedLen(ls) ==
    IF ls = << >> THEN 0
    ELSE IF Len(ls) = 1 THEN ls[1]
    ELSE ls[1] + 1 + JoinedLen(Tail(ls))

\* metadata().len() of a file with content c, and the configured size cap.
FileSize(c) == JoinedLen(Lines(c))
max_file_size == 2097152

\* SHA-256 of a content as a hex string: injective on the model's contents.
Sha256(c) == <<"sha256", c>>


\* --------------------------------------------------------------- state

VARIABLES
    \* the workspace tree on disk: content of each file, or Absent
    fs,
    \* debounced filesystem events not yet delivered to the watcher callback
    pending,
    \* Instant::now(), in milliseconds
    now,
    \* ReindexCooldownTracker.last_reindex: relative path -> Instant
    last_reindex,
    \* the IndexState objects ever created: is_indexing[i] is the flag of object i
    is_indexing,
    \* IndexManager.indexes entry of the workspace: an object of is_indexing, 0 if none
    indexes,
    \* the committed documents of the workspace's Tantivy index directory
    docs,
    \* IndexManager.content_hashes entry of the workspace: absolute path -> hash
    content_hashes,
    \* IndexManager.indexed_workspaces entry of the workspace
    indexed_workspaces,
    \* the tasks holding an open IndexWriter on the index directory
    writers,
    \* IndexManager.writer_lock: the reindex task holding it, 0 if free
    writer_lock,
    \* spawned background indexing tasks: position, IndexState held, locals
    ipc, ist, ilocals,
    \* spawned reindex_file tasks: position, IndexState held, arguments
    rpc, rst, rargs,
    \* what the step taken last showed: its answer or result, the events it sent
    last,
    \* history: a full reconciliation has completed on the files as they are,
    \* and neither a file nor the index has changed since
    synced,
    \* history: file written (and not written again) while the workspace was
    \* watched and indexed
    written

ixvars == << fs, pending, now, last_reindex, is_indexing, indexes, docs,
             content_hashes, indexed_workspaces, writers, writer_lock,
             ipc, ist, ilocals, rpc, rst, rargs, last, synced, written >>

VARIABLES
    \* WorkspaceManager.workspaces: id -> Workspace (path, is_active, last_accessed)
    workspaces,
    \* workspaces.json as persist wrote it last
    workspaces_file,
    \* create_workspace calls under way: position and locals
    cpc, clocals,
    \* activate_workspace calls under way: position and the id asked for
    apc, aid,
    \* the number of ids Uuid::new_v4 has produced
    uuids,
    \* Utc::now() of the workspace catalog
    wnow,
    \* what the catalog call that ended last returned
    wlast

wsvars == << workspaces, workspaces_file, cpc, clocals, apc, aid, uuids, wnow, wlast >>

VARIABLES
    \* the file request handled last: handler, path asked for, result
    freq

pvvars == << freq >>

VARIABLES
    \* EmbeddingManager.workspaces: workspace id -> WorkspaceVectorState
    vector_workspaces,
    \* vectors/<workspace_id>/ on disk: index.usearch, metadata.json, content_hashes.json
    vector_files,
    \* EmbeddingManager.indexing_workspaces: workspace id -> rebuild guard
    indexing_workspaces,
    \* index_workspace_vectors calls under way: position and arguments
    vpc, vargs,
    \* reindex_file_vectors calls under way: position and arguments
    rvpc, rvargs,
    \* Instant::now() of the embedding manager, in seconds
    vnow,
    \* history: the highest vector id handed out so far in each workspace
    assigned_high,
    \* history: the numbers of calls and restarts so far
    vcalls,
    \* what the vector operation that ended last did and returned
    vlast

vecvars == << vector_workspaces, vector_files, indexing_workspaces, vpc, vargs,
              rvpc, rvargs, vnow, assigned_high, vcalls, vlast >>

VARIABLES
    \* catalog calls followed through persist: position, the map as persist
    \* collected it, and the file its open descriptor refers to
    mpc, msnap, mfd,
    \* the files of the data directory ever created: content, and whether the
    \* write that fills it has been done
    inodes,
    \* the files that workspaces.json.tmp and workspaces.json name, 0 if none
    tmp_link, target_link,
    \* history: the number of calls so far, and whether one returned an error
    mcalls, mfailed

pervars == << mpc, msnap, mfd, inodes, tmp_link, target_link, mcalls, mfailed >>

VARIABLES
    \* the indexed field of the workspace's catalog entry, as
    \* update_workspace_stats wrote it last
    catalog_indexed,
    \* history: a full reconciliation of the workspace has completed
    reconciled

statvars == << catalog_indexed, reconciled >>

VARIABLES
    \* FileWatcherManager.watchers has an entry for the indexed workspace
    ix_watched,
    \* history: the remove_workspace handler has completed for the workspace
    ws_removed

rmvars == << ix_watched, ws_removed >>

VARIABLES
    \* the value of VYOTIQ_ENABLE_FILE_WATCHER in the daemon's environment
    env_file_watcher,
    \* Config.enable_file_watcher, as parsed from it at startup
    enable_file_watcher,
    \* the ids of FileWatcherManager.watchers
    watchers,
    \* the ids of the workspaces the catalog lists
    listed,
    \* the startup task that restores the watchers: "pending" or "done"
    restore_pc

wtvars == << env_file_watcher, enable_file_watcher, watchers, listed, restore_pc >>

VARIABLES
    \* handle_socket's subscribed set of one WebSocket client
    subscribed,
    \* history: the client has sent subscribe_workspace at least once
    ever_subscribed,
    \* the events the client's broadcast receiver has not yet received
    rx,
    \* the send task: "recv" (at rx.recv), "send" (past the filter, at
    \* sender.send) or "closed"
    spc,
    \* the event the send task holds
    held,
    \* the events forwarded to the client, in order
    forwarded

sockvars == << subscribed, ever_subscribed, rx, spc, held, forwarded >>

VARIABLES
    \* the "limit" member of a semantic-search request body
    body_limit,
    \* the request: "route" (in the handler), "search" (in
    \* vector_semantic_search), "knn" (at index.search) or "idle"
    qpc,
    \* the limit the handler passes to vector_semantic_search
    passed_limit,
    \* the k of the k-NN search
    knn_k

limvars == << body_limit, qpc, passed_limit, knn_k >>

VARIABLES
    \* the arguments of a call of chunk_text: the content as the lengths of
    \* its newline-separated segments, max_chars, overlap, max_chunks
    ck_content, ck_max_chars, ck_overlap, ck_max_chunks,
    \* the call has returned, and what it returned
    ck_done, ck_chunks

chunkvars == << ck_content, ck_max_chars, ck_overlap, ck_max_chunks, ck_done, ck_chunks >>

\* The state outside the subsystems above.
VARIABLES
    \* history: the workspace's vector state was written to disk at the
    \* present instant of the embedding manager
    written_now

savevars == << written_now >>

VARIABLES
    \* the debouncer callback of one watcher: the clock in milliseconds
    cb_now,
    \* its ReindexCooldownTracker.last_reindex: relative path -> Instant
    cb_tracker,
    \* its cleanup_counter
    cb_count,
    \* the batch of debounced events of the last callback
    cb_events,
    \* what the last callback did, in order: FileChanged events sent and
    \* reindex_file tasks spawned
    cb_out,
    \* history: per relative path, when the watcher last accepted an event
    cb_accepted

cbvars == << cb_now, cb_tracker, cb_count, cb_events, cb_out, cb_accepted >>

VARIABLES
    \* the lexical index of the workspace registered at RequestRoot: whether
    \* it exists, its documents, and the paths of its content-hash catalog
    key_index,
    key_docs,
    key_catalog,
    \* the files of the workspace that are on disk
    key_files,
    \* the last call: its name, the path it was given and its outcome
    key_last

keyvars == << key_index, key_docs, key_catalog, key_files, key_last >>

VARIABLES
    \* a spawn_background_indexing task of one workspace: its position
    ev_pc,
    \* whether the workspace has an IndexState, and its is_indexing flag and
    \* indexed_count
    ev_index,
    ev_is_indexing,
    ev_indexed_count,
    \* per task: files_to_index.len(), the prepared documents and those added
    ev_locals,
    \* IndexManager.batch_size
    ev_batch_size,
    \* the events sent by the last step
    ev_last,
    \* history: whether an IndexingStarted has been sent, the terminators
    \* sent since the last one, and the last indexed value sent since
    ev_log,
    \* the calls made
    ev_calls

evvars == << ev_pc, ev_index, ev_is_indexing, ev_indexed_count, ev_locals, ev_batch_size,
            ev_last, ev_log, ev_calls >>

extravars == << pervars, rmvars, wtvars, sockvars, limvars, chunkvars, savevars, cbvars,
               keyvars, evvars >>

\* Everything but the lexical indexing state, but the catalog, but the vector
\* index, and but the file requests.
outside_indexing == << wsvars, pvvars, vecvars, extravars, statvars >>
outside_catalog == << ixvars, pvvars, vecvars, extravars, statvars >>
outside_vectors == << ixvars, wsvars, pvvars, extravars, statvars >>
outside_files == << ixvars, wsvars, vecvars, extravars, statvars >>

\* Everything but the lexical indexing state and the statistics of the
\* catalog entry.
outside_indexing_stats == << wsvars, pvvars, vecvars, extravars >>

\* Everything but the catalog and its file.
outside_catalog_files == << ixvars, pvvars, vecvars, statvars, rmvars, wtvars, sockvars, limvars,
                           chunkvars, savevars, cbvars, keyvars, evvars >>

\* Everything but the watcher registry.
outside_watchers == << ixvars, wsvars, pvvars, vecvars, statvars, pervars, rmvars, sockvars, limvars,
                      chunkvars, savevars, cbvars, keyvars, evvars >>

\* Everything but one client's socket.
outside_socket == << ixvars, wsvars, pvvars, vecvars, statvars, pervars, rmvars, wtvars, limvars,
                    chunkvars, savevars, cbvars, keyvars, evvars >>

\* Everything but a semantic-search request.
outside_request == << ixvars, wsvars, pvvars, vecvars, statvars, pervars, rmvars, wtvars, sockvars,
                     chunkvars, savevars, cbvars, keyvars, evvars >>

\* Everything but a call of chunk_text.
outside_chunking == << ixvars, wsvars, pvvars, vecvars, statvars, pervars, rmvars, wtvars, sockvars,
                      limvars, savevars, cbvars, keyvars, evvars >>

\* Everything but the vector indexes and the history of their saves.
outside_vectors_saves == << ixvars, wsvars, pvvars, statvars, pervars, rmvars, wtvars, sockvars,
                           limvars, chunkvars, cbvars, keyvars, evvars >>

\* Everything but the debouncer callback.
outside_callback == << ixvars, wsvars, pvvars, vecvars, statvars, pervars, rmvars, wtvars,
                      sockvars, limvars, chunkvars, savevars, keyvars, evvars >>

\* Everything but the events of the background indexing tasks.
outside_events == << ixvars, wsvars, pvvars, vecvars, statvars, pervars, rmvars, wtvars,
                    sockvars, limvars, chunkvars, savevars, cbvars, keyvars >>

\* Everything but the index that is followed by its path keys.
outside_keys == << ixvars, wsvars, pvvars, vecvars, statvars, pervars, rmvars, wtvars,
                  sockvars, limvars, chunkvars, savevars, cbvars, evvars >>

\* ------------------------------------------------------------ helpers

NoHashes == [ f \in {} |-> << >> ]
NoLocals == [ existing |-> NoHashes, new_file_hashes |-> NoHashes,
              files_to_index |-> {}, paths_to_remove |-> {} ]
NoArgs == [ file_path |-> << >>, change_type |-> "none" ]
NoInstant == 0 - 1

\* What a step shows to the outside: the operation, its answer or result, and
\* the ServerEvents it broadcasts.
Step(op, outcome, events) ==
    [ op |-> op, outcome |-> outcome, events |-> events,
      busy |-> FALSE, clean |-> FALSE ]

\* A step that answers nothing and broadcasts nothing.
Silent == Step("none", "none", << >>)

\* get_index_status(..).is_indexing: the flag of the IndexState in the map.
\* (Its load of an index found on disk but not in the map does not arise: the
\* directory and the map entry come into being in one step, IwCreate.)
StatusIsIndexing == indexes # 0 /\ is_indexing[indexes]

\* get_index_status(..).indexed
StatusIndexed == indexes # 0 /\ indexed_workspaces

\* The indexed argument of the update_workspace_stats call that the spawned
\* task makes when index_workspace has returned Ok.
StatsAfterOk == TRUE

\* An index task between its successful compare-exchange and its end.
PastCas(t) == ipc[t] \in { "walk", "writer", "commit" }

\* A document as prepare_file_document builds it from the file on disk.
prepare_file_document(path) ==
    [ path |-> path, content |-> fs[path], content_hash |-> Sha256(fs[path]) ]

\* A delete that takes every document out of the index.
DeleteAllDocuments(ds, path) == {}

\* IndexWriter::delete_term on the path field
delete_term(ds, path) == { d \in ds : d.path # path }

\* The files the walk of index_workspace collects.
WalkFiles ==
    { f \in Files :
        /\ fs[f] # Absent
        /\ ~GitIgnored(f)
        /\ ~is_build_or_output_dir(f)
        /\ FileSize(fs[f]) <= max_file_size
        /\ is_indexable(f) }

\* The hashes index_workspace computes for the files its walk collects.
CurrentHashes == [ f \in WalkFiles |-> Sha256(fs[f]) ]

\* The paths whose hash differs from the catalog's, or that it does not hold.
FilesToIndex(existing, new_file_hashes) ==
    { f \in DOMAIN new_file_hashes :
        ~(f \in DOMAIN existing /\ existing[f] = new_file_hashes[f]) }

\* The catalog's paths that the walk no longer finds.
PathsToRemove(existing, new_file_hashes) ==
    DOMAIN existing \ DOMAIN new_file_hashes

\* A sidecar update that keeps the catalog as it was read.
UpdatedHashesUnmerged(existing, paths_to_remove, new_file_hashes) == existing

\* The sidecar update at the end of index_workspace.
UpdatedHashes(existing, paths_to_remove, new_file_hashes) ==
    [ f \in (DOMAIN existing \ paths_to_remove) \cup DOMAIN new_file_hashes |->
        IF f \in DOMAIN new_file_hashes THEN new_file_hashes[f] ELSE existing[f] ]

\* A lexical search for a substring that only content c contains.
LexicalSearch(c) == { d.path : d \in { e \in docs : e.content = c } }


\* ------------------------------------------ triggers of a full rebuild

\* spawn_background_indexing: the pre-check, then tokio::spawn.
SpawnBackgroundIndexing(t) ==
    IF StatusIsIndexing
    THEN UNCHANGED ipc
    ELSE ipc' = [ipc EXCEPT ![t] = "lookup"]

\* An index task is between its trigger and its end.
RebuildUnfinished == \E u \in IndexTasks : ipc[u] # "idle"

\* POST /index of routes/search.rs: answers already_indexing when the flag is
\* set, and spawns the background task otherwise.
HttpIndexWorkspace(t) ==
    /\ ipc[t] = "idle"
    /\ IF StatusIsIndexing
       THEN UNCHANGED ipc
       ELSE SpawnBackgroundIndexing(t)
    /\ last' = [ Step("HttpIndexWorkspace", IF StatusIsIndexing THEN "already_indexing"
                                          ELSE "indexing_started", << >>)
                 EXCEPT !.busy = RebuildUnfinished ]
    /\ UNCHANGED << fs, pending, now, last_reindex, is_indexing, indexes, docs,
                    content_hashes, indexed_workspaces, writers, writer_lock,
                    ist, ilocals, rpc, rst, rargs, synced, written >>

    /\ UNCHANGED outside_indexing
\* The trigger_index command of the WebSocket handler, and the trigger at the
\* end of the create_workspace handler: spawn_background_indexing, no answer.
WsTriggerIndex(t) ==
    /\ ipc[t] = "idle"
    /\ SpawnBackgroundIndexing(t)
    /\ last' = Silent
    /\ UNCHANGED << fs, pending, now, last_reindex, is_indexing, indexes, docs,
                    content_hashes, indexed_workspaces, writers, writer_lock,
                    ist, ilocals, rpc, rst, rargs, synced, written >>

    /\ UNCHANGED outside_indexing
\* The activate_workspace handler: loads the index (get_or_create_index), then
\* triggers a rebuild when the workspace is neither indexed nor indexing.
ActivateWorkspace(t) ==
    /\ ipc[t] = "idle"
    /\ IF indexes = 0
       THEN /\ is_indexing' = Append(is_indexing, FALSE)
            /\ indexes' = Len(is_indexing) + 1
       ELSE UNCHANGED << is_indexing, indexes >>
    /\ IF ~indexed_workspaces /\ ~StatusIsIndexing
       THEN ipc' = [ipc EXCEPT ![t] = "lookup"]
       ELSE UNCHANGED ipc
    /\ last' = Silent
    /\ UNCHANGED << fs, pending, now, last_reindex, docs,
                    content_hashes, indexed_workspaces, writers, writer_lock,
                    ist, ilocals, rpc, rst, rargs, synced, written >>

    /\ UNCHANGED outside_indexing

\* ------------------------------------- IndexManager::index_workspace

\* get_or_create_index, the lookup: indexes.get(workspace_id)
IwLookup(t) ==
    /\ ipc[t] = "lookup"
    /\ IF indexes # 0
       THEN /\ ist' = [ist EXCEPT ![t] = indexes]
            /\ ipc' = [ipc EXCEPT ![t] = "cas"]
       ELSE /\ ipc' = [ipc EXCEPT ![t] = "create"]
            /\ UNCHANGED ist
    /\ last' = Silent
    /\ UNCHANGED << fs, pending, now, last_reindex, is_indexing, indexes, docs,
                    content_hashes, indexed_workspaces, writers, writer_lock,
                    ilocals, rpc, rst, rargs, synced, written >>

    /\ UNCHANGED outside_indexing
\* get_or_create_index after a miss: opens or creates the index directory,
\* builds a new IndexState (is_indexing false) and inserts it into the map,
\* replacing whatever another caller has inserted meanwhile.  When the
\* directory cannot be created or opened, index_workspace returns the error
\* with `?` and the spawned task sends IndexingError.
IwCreate(t) ==
    /\ ipc[t] = "create"
    /\ \E ok \in BOOLEAN :
        /\ IF ok
           THEN /\ is_indexing' = Append(is_indexing, FALSE)
                /\ indexes' = Len(is_indexing) + 1
                /\ ist' = [ist EXCEPT ![t] = Len(is_indexing) + 1]
                /\ ipc' = [ipc EXCEPT ![t] = "cas"]
           ELSE /\ ipc' = [ipc EXCEPT ![t] = "idle"]
                /\ UNCHANGED << is_indexing, indexes, ist >>
        /\ last' = IF ok THEN Silent
                   ELSE Step("IwCreate", "failed", << "IndexingError" >>)
    /\ UNCHANGED << fs, pending, now, last_reindex, docs,
                    content_hashes, indexed_workspaces, writers, writer_lock,
                    ilocals, rpc, rst, rargs, synced, written >>

    /\ UNCHANGED outside_indexing
\* is_indexing.compare_exchange(false, true): on failure the call returns Ok,
\* and the spawned task, as after every Ok, calls update_workspace_stats with
\* indexed true.
IwCas(t) ==
    /\ ipc[t] = "cas"
    /\ IF is_indexing[ist[t]]
       THEN /\ ipc' = [ipc EXCEPT ![t] = "idle"]
            /\ ist' = [ist EXCEPT ![t] = 0]
            /\ catalog_indexed' = StatsAfterOk
            /\ UNCHANGED is_indexing
       ELSE /\ is_indexing' = [is_indexing EXCEPT ![ist[t]] = TRUE]
            /\ ipc' = [ipc EXCEPT ![t] = "walk"]
            /\ UNCHANGED << ist, catalog_indexed >>
    /\ last' = Silent
    /\ UNCHANGED reconciled
    /\ UNCHANGED << fs, pending, now, last_reindex, indexes, docs,
                    content_hashes, indexed_workspaces, writers, writer_lock,
                    ilocals, rpc, rst, rargs, synced, written >>

    /\ UNCHANGED outside_indexing_stats
\* The walk, the hashing of the files found, the comparison with the catalog
\* (read_existing_hashes) and, when nothing differs, the early return with
\* Ok, after which the spawned task calls update_workspace_stats.
IwWalk(t) ==
    /\ ipc[t] = "walk"
    /\ LET existing == content_hashes
           new_file_hashes == CurrentHashes
           files_to_index == FilesToIndex(existing, new_file_hashes)
           paths_to_remove == PathsToRemove(existing, new_file_hashes)
           nothing == files_to_index = {} /\ paths_to_remove = {}
       IN  /\ IF nothing
              THEN /\ is_indexing' = [is_indexing EXCEPT ![ist[t]] = FALSE]
                   /\ indexed_workspaces' = TRUE
                   /\ ipc' = [ipc EXCEPT ![t] = "idle"]
                   /\ ist' = [ist EXCEPT ![t] = 0]
                   /\ synced' = TRUE
                   /\ catalog_indexed' = StatsAfterOk
                   /\ reconciled' = TRUE
                   /\ UNCHANGED ilocals
              ELSE /\ ilocals' = [ilocals EXCEPT ![t] =
                          [ existing |-> existing,
                            new_file_hashes |-> new_file_hashes,
                            files_to_index |-> files_to_index,
                            paths_to_remove |-> paths_to_remove ]]
                   /\ ipc' = [ipc EXCEPT ![t] = "writer"]
                   /\ UNCHANGED << is_indexing, indexed_workspaces, ist, synced >>
                   /\ UNCHANGED statvars
           /\ last' = [ Step("IwWalk", IF nothing THEN "up_to_date" ELSE "work",
                             IF nothing THEN << >> ELSE << "IndexingStarted" >>)
                        EXCEPT !.clean = synced ]
    /\ UNCHANGED << fs, pending, now, last_reindex, indexes, docs,
                    content_hashes, writers, writer_lock,
                    rpc, rst, rargs, written >>

    /\ UNCHANGED outside_indexing_stats
\* state.index.writer(50_000_000): Tantivy gives the directory's writer lock to
\* one IndexWriter at a time, so the call fails while another writer is open;
\* it may fail for other reasons too.  On failure index_workspace returns the
\* error with `?` and the spawned task sends IndexingError.
IwWriter(t) ==
    /\ ipc[t] = "writer"
    /\ \E ok \in BOOLEAN :
        /\ ok => writers = {}
        /\ IF ok
           THEN /\ writers' = writers \cup { << "index", t >> }
                /\ ipc' = [ipc EXCEPT ![t] = "commit"]
                /\ UNCHANGED << ist, ilocals >>
           ELSE /\ ipc' = [ipc EXCEPT ![t] = "idle"]
                /\ ist' = [ist EXCEPT ![t] = 0]
                /\ ilocals' = [ilocals EXCEPT ![t] = NoLocals]
                /\ UNCHANGED writers
        /\ last' = Step("IwWriter", IF ok THEN "opened" ELSE "failed",
                        IF ok THEN << >> ELSE << "IndexingError" >>)
    /\ UNCHANGED << fs, pending, now, last_reindex, is_indexing, indexes, docs,
                    content_hashes, indexed_workspaces, writer_lock,
                    rpc, rst, rargs, synced, written >>

    /\ UNCHANGED outside_indexing

\* INDEX_BATCH_SIZE default of AppConfig::from_env
batch_size == 50

\* The IndexingProgress events of the add loop over n prepared documents.
ProgressEvents(n) ==
    [ i \in 1..Cardinality({ k \in 1..n : k % batch_size = 0 }) |-> "IndexingProgress" ]

\* The documents left after the delete_term calls of index_workspace.
AfterDeletes(ds, paths_to_remove, files_to_index) ==
    { d \in ds : d.path \notin paths_to_remove \cup files_to_index }

\* The delete_term calls, the preparation of the documents from the files as
\* they are now (unreadable ones are skipped), add_document, commit, reader
\* reload, the sidecar update and the release of the flag, and after the Ok
\* the update_workspace_stats call of the spawned task.  A failed commit or
\* reload returns the error with `?`.
IwCommit(t) ==
    /\ ipc[t] = "commit"
    /\ \E outcome \in { "committed", "commit_failed", "reload_failed" } :
        LET l == ilocals[t]
            file_data == { prepare_file_document(f) :
                             f \in { g \in l.files_to_index : fs[g] # Absent } }
            done == outcome = "committed"
        IN  /\ docs' = IF outcome = "commit_failed" THEN docs
                       ELSE AfterDeletes(docs, l.paths_to_remove, l.files_to_index)
                              \cup file_data
            /\ IF done
               THEN /\ content_hashes' =
                          UpdatedHashes(l.existing, l.paths_to_remove, l.new_file_hashes)
                    /\ is_indexing' = [is_indexing EXCEPT ![ist[t]] = FALSE]
                    /\ indexed_workspaces' = TRUE
                    /\ catalog_indexed' = StatsAfterOk
                    /\ reconciled' = TRUE
               ELSE UNCHANGED << content_hashes, is_indexing, indexed_workspaces,
                                 statvars >>
            /\ synced' = IF outcome = "commit_failed" THEN synced
                         ELSE done /\ l.new_file_hashes = CurrentHashes
            /\ last' = Step("IwCommit", outcome,
                            ProgressEvents(Cardinality(file_data)) \o
                            << IF done THEN "IndexingCompleted" ELSE "IndexingError" >>)
    /\ writers' = writers \ { << "index", t >> }
    /\ ipc' = [ipc EXCEPT ![t] = "idle"]
    /\ ist' = [ist EXCEPT ![t] = 0]
    /\ ilocals' = [ilocals EXCEPT ![t] = NoLocals]
    /\ UNCHANGED << fs, pending, now, last_reindex, indexes, writer_lock,
                    rpc, rst, rargs, written >>

    /\ UNCHANGED outside_indexing_stats

\* ------------------------------------------------- the file watcher

\* watcher.rs: REINDEX_COOLDOWN_MS
REINDEX_COOLDOWN_MS == 5000
\* watcher.rs cleanup_stale: Duration::from_secs(60), in milliseconds
STALE_AFTER_MS == 60000

\* The clock advances in steps of half the cooldown.
TickMs == REINDEX_COOLDOWN_MS \div 2

\* ReindexCooldownTracker::should_reindex, the test
should_reindex(tracker, path, at) ==
    ~(tracker[path] # NoInstant /\ at - tracker[path] < REINDEX_COOLDOWN_MS)

\* A sweep that forgets every entry.
cleanup_all(tracker, at) == [ p \in DOMAIN tracker |-> NoInstant ]

\* ReindexCooldownTracker::cleanup_stale
cleanup_stale(tracker, at) ==
    [ p \in DOMAIN tracker |->
        IF tracker[p] # NoInstant /\ tracker[p] > at - STALE_AFTER_MS
        THEN tracker[p] ELSE NoInstant ]

\* The paths of a callback batch that are dispatched: not under an excluded
\* directory, and past the cooldown.
Dispatched(batch, tracker, at) ==
    { f \in batch :
        /\ ~is_build_or_output_dir(f)
        /\ should_reindex(tracker, StripPrefix(f, WorkspaceRoot), at) }

\* The debouncer's callback on a batch of events: the periodic sweep of the
\* cooldown tracker (every 50th call, here any call), then per path the
\* excluded-directory filter, the cooldown, the FileChanged event and the
\* spawn of reindex_file.
WatcherCallback(batch, sweep) ==
    /\ batch # {}
    /\ \A f \in batch : pending[f] # "none"
    /\ LET tracker == IF sweep THEN cleanup_stale(last_reindex, now) ELSE last_reindex
           accepted == Dispatched(batch, tracker, now)
           free == { r \in ReindexTasks : rpc[r] = "idle" }
       IN  /\ Cardinality(accepted) <= Cardinality(free)
           /\ \E slot \in [accepted -> free] :
                /\ \A f, g \in accepted : f # g => slot[f] # slot[g]
                /\ rpc' = [ r \in ReindexTasks |->
                            IF \E f \in accepted : slot[f] = r THEN "lookup" ELSE rpc[r] ]
                /\ rargs' = [ r \in ReindexTasks |->
                            IF \E f \in accepted : slot[f] = r
                            THEN LET f == CHOOSE g \in accepted : slot[g] = r
                                 IN  [ file_path |-> StripPrefix(f, WorkspaceRoot),
                                       change_type |-> pending[f] ]
                            ELSE rargs[r] ]
           /\ last_reindex' = [ p \in RelPaths |->
                 IF JoinPath(WorkspaceRoot, p) \in accepted THEN now ELSE tracker[p] ]
           /\ last' = Step("WatcherCallback", IF accepted = {} THEN "discarded" ELSE "dispatched",
                           [ i \in 1..Cardinality(accepted) |-> "FileChanged" ])
    /\ pending' = [ f \in Files |-> IF f \in batch THEN "none" ELSE pending[f] ]
    /\ UNCHANGED << fs, now, is_indexing, indexes, docs, content_hashes,
                    indexed_workspaces, writers, writer_lock, ipc, ist, ilocals,
                    rst, synced, written >>

    /\ UNCHANGED outside_indexing
\* ------------------------------- the debouncer callback, batch by batch

\* watcher.rs: count % 50
CLEANUP_EVERY == 50

\* The callbacks and the time followed: the clock moves by half a cooldown
\* inside a window of one cooldown, and by the age at which entries go stale.
MaxCallbacks == 51
MaxBatchCallbacks == 2
MaxWindowMs == 5000
MaxCbTime == 65000

\* The paths the watcher reports: two source files, a file under target/,
\* and a file that bears the name of an output directory.
CbPaths ==
    { JoinPath(WorkspaceRoot, <<"a.rs">>), JoinPath(WorkspaceRoot, <<"b.rs">>),
      JoinPath(WorkspaceRoot, <<"target", "x.rs">>), JoinPath(WorkspaceRoot, <<"out">>) }

\* path.strip_prefix(&ws_path): the key of the cooldown tracker
CbRelPaths == { StripPrefix(p, WorkspaceRoot) : p \in CbPaths }

\* notify's EventKind, and a debounced event: its kind and its paths.
EventKinds == { "Create", "Modify", "Remove", "Access", "Any" }
DebouncedEvent(kind, paths) == [ kind |-> kind, paths |-> paths ]

\* classify_debounced_event
classify_debounced_event(event) ==
    CASE event.kind = "Create" -> "create"
      [] event.kind = "Modify" -> "modify"
      [] event.kind = "Remove" -> "remove"
      [] event.kind = "Access" -> "access"
      [] OTHER -> "other"

\* The first loop of the callback, the last event of a path winning
\* whatever its kind.
RECURSIVE FileEventsOfAnyKind(_, _, _)
FileEventsOfAnyKind(events, i, file_events) ==
    IF i > Len(events) THEN file_events
    ELSE LET change_type == classify_debounced_event(events[i])
             kept == { p \in events[i].paths : ~is_build_or_output_dir(p) }
         IN  FileEventsOfAnyKind(events, i + 1,
                        [ p \in DOMAIN file_events \cup kept |->
                            IF p \in kept THEN change_type ELSE file_events[p] ])

\* The callback's first loop over the events from event i on: file_events
\* maps a path to the change type of the last event that names it, access
\* and other events and paths under output directories being passed over.
RECURSIVE FileEvents(_, _, _)
FileEvents(events, i, file_events) ==
    IF i > Len(events) THEN file_events
    ELSE LET change_type == classify_debounced_event(events[i])
             kept == IF change_type \in { "access", "other" } THEN {}
                     ELSE { p \in events[i].paths : ~is_build_or_output_dir(p) }
         IN  FileEvents(events, i + 1,
                        [ p \in DOMAIN file_events \cup kept |->
                            IF p \in kept THEN change_type ELSE file_events[p] ])

NoFileEvents == [ p \in {} |-> "none" ]

\* The orders in which a HashMap may yield the paths.
Orders(paths) ==
    { order \in [1..Cardinality(paths) -> paths] :
        \A i, j \in 1..Cardinality(paths) : i # j => order[i] # order[j] }

\* What the second loop does for the accepted paths, in order: per path a
\* FileChanged event is sent, then the reindex_file task is spawned.
RECURSIVE Emissions(_, _)
Emissions(order, file_events) ==
    IF order = << >> THEN << >>
    ELSE LET p == Head(order)
             relative == StripPrefix(p, WorkspaceRoot)
         IN  << [ what |-> "FileChanged", path |-> relative,
                  change_type |-> file_events[p] ],
                [ what |-> "reindex_file", path |-> relative,
                  change_type |-> file_events[p] ] >>
             \o Emissions(Tail(order), file_events)

\* The debouncer's callback on Ok(events): the sweep of the cooldown tracker
\* on every 50th call, the first loop, and the second loop with the cooldown.
DebouncedCallback(events) ==
    /\ LET tracker == IF cb_count % CLEANUP_EVERY = 0
                      THEN cleanup_stale(cb_tracker, cb_now) ELSE cb_tracker
           file_events == FileEvents(events, 1, NoFileEvents)
           accepted == { p \in DOMAIN file_events :
                           should_reindex(tracker, StripPrefix(p, WorkspaceRoot), cb_now) }
           stamped(old) == [ r \in CbRelPaths |->
                              IF JoinPath(WorkspaceRoot, r) \in accepted THEN cb_now
                              ELSE old[r] ]
       IN  /\ \E order \in Orders(accepted) : cb_out' = Emissions(order, file_events)
           /\ cb_tracker' = stamped(tracker)
           /\ cb_accepted' = stamped(cb_accepted)
    /\ cb_count' = cb_count + 1
    /\ cb_events' = events
    /\ UNCHANGED cb_now
    /\ UNCHANGED outside_callback

\* Time passes for the watcher.
CbTick(ms) ==
    /\ cb_now + ms <= MaxCbTime
    /\ cb_now' = cb_now + ms
    /\ UNCHANGED << cb_tracker, cb_count, cb_events, cb_out, cb_accepted >>
    /\ UNCHANGED outside_callback

\* A watcher that has just been started.
CbStarted ==
    /\ cb_now = 0
    /\ cb_tracker = [ r \in CbRelPaths |-> NoInstant ]
    /\ cb_count = 0
    /\ cb_out = << >>
    /\ cb_accepted = [ r \in CbRelPaths |-> NoInstant ]
CbInit == CbStarted /\ cb_events = << >>

\* The batches followed through the cooldown: one or two files modified, a
\* file read.
CooldownBatches ==
    { << DebouncedEvent("Modify", { JoinPath(WorkspaceRoot, <<"a.rs">>) }) >>,
      << DebouncedEvent("Create", { JoinPath(WorkspaceRoot, <<"a.rs">>),
                                    JoinPath(WorkspaceRoot, <<"b.rs">>) }) >>,
      << DebouncedEvent("Access", { JoinPath(WorkspaceRoot, <<"b.rs">>) }) >> }

\* One watcher over a long time: callbacks, the clock inside a window of one
\* cooldown, and the passing of a minute.
CooldownNext ==
    \/ \E events \in CooldownBatches :
          cb_count < MaxCallbacks /\ DebouncedCallback(events)
    \/ (cb_now % STALE_AFTER_MS) + TickMs <= MaxWindowMs /\ CbTick(TickMs)
    \/ CbTick(STALE_AFTER_MS)

\* The events of a batch: any kind, on one path or on a pair of paths.
BatchPathSets ==
    { { p } : p \in CbPaths }
        \cup { { JoinPath(WorkspaceRoot, <<"a.rs">>), JoinPath(WorkspaceRoot, <<"b.rs">>) } }
BatchEvents == { DebouncedEvent(kind, paths) : kind \in EventKinds, paths \in BatchPathSets }
MaxBatchLen == 2
Batches == UNION { [1..n -> BatchEvents] : n \in 1..MaxBatchLen }

\* A watcher that has just been started, and the batch it is to be handed.
BatchCall == CbStarted /\ cb_events \in Batches

\* One watcher handed a batch twice, at once or up to a cooldown apart.
BatchNext ==
    \/ cb_count < MaxBatchCallbacks /\ DebouncedCallback(cb_events)
    \/ cb_now + TickMs <= MaxWindowMs /\ CbTick(TickMs)

\* ------------------------------------ IndexManager::reindex_file

\* indexes.get(workspace_id): without an index the call returns at once.
RfLookup(r) ==
    /\ rpc[r] = "lookup"
    /\ IF indexes = 0
       THEN /\ rpc' = [rpc EXCEPT ![r] = "idle"]
            /\ rargs' = [rargs EXCEPT ![r] = NoArgs]
            /\ UNCHANGED rst
       ELSE /\ rpc' = [rpc EXCEPT ![r] = "lock"]
            /\ rst' = [rst EXCEPT ![r] = indexes]
            /\ UNCHANGED rargs
    /\ last' = Silent
    /\ UNCHANGED << fs, pending, now, last_reindex, is_indexing, indexes, docs,
                    content_hashes, indexed_workspaces, writers, writer_lock,
                    ipc, ist, ilocals, synced, written >>

    /\ UNCHANGED outside_indexing
\* self.writer_lock.lock().await
RfLock(r) ==
    /\ rpc[r] = "lock"
    /\ writer_lock = 0
    /\ writer_lock' = r
    /\ rpc' = [rpc EXCEPT ![r] = "check"]
    /\ last' = Silent
    /\ UNCHANGED << fs, pending, now, last_reindex, is_indexing, indexes, docs,
                    content_hashes, indexed_workspaces, writers,
                    ipc, ist, ilocals, rst, rargs, synced, written >>

    /\ UNCHANGED outside_indexing
\* The skip while a full indexing is in progress: is_indexing.load()
RfCheck(r) ==
    /\ rpc[r] = "check"
    /\ IF is_indexing[rst[r]]
       THEN /\ rpc' = [rpc EXCEPT ![r] = "idle"]
            /\ rst' = [rst EXCEPT ![r] = 0]
            /\ rargs' = [rargs EXCEPT ![r] = NoArgs]
            /\ writer_lock' = 0
       ELSE /\ rpc' = [rpc EXCEPT ![r] = "writer"]
            /\ UNCHANGED << rst, rargs, writer_lock >>
    /\ last' = Silent
    /\ UNCHANGED << fs, pending, now, last_reindex, is_indexing, indexes, docs,
                    content_hashes, indexed_workspaces, writers,
                    ipc, ist, ilocals, synced, written >>

    /\ UNCHANGED outside_indexing
\* index.writer(10_000_000): fails while another writer is open on the directory.
RfWriter(r) ==
    /\ rpc[r] = "writer"
    /\ \E ok \in BOOLEAN :
        /\ ok => writers = {}
        /\ IF ok
           THEN /\ writers' = writers \cup { << "reindex", r >> }
                /\ rpc' = [rpc EXCEPT ![r] = "commit"]
                /\ UNCHANGED << rst, rargs, writer_lock >>
           ELSE /\ rpc' = [rpc EXCEPT ![r] = "idle"]
                /\ rst' = [rst EXCEPT ![r] = 0]
                /\ rargs' = [rargs EXCEPT ![r] = NoArgs]
                /\ writer_lock' = 0
                /\ UNCHANGED writers
        /\ last' = Silent
    /\ UNCHANGED << fs, pending, now, last_reindex, is_indexing, indexes, docs,
                    content_hashes, indexed_workspaces,
                    ipc, ist, ilocals, synced, written >>

    /\ UNCHANGED outside_indexing
\* The document reindex_file adds after its delete_term: none for a removal, a
\* missing file, a file that is not indexable or one over the size cap.
ReindexedDocs(abs_path, change_type) ==
    IF /\ change_type # "remove"
       /\ fs[abs_path] # Absent
       /\ is_indexable(abs_path)
       /\ FileSize(fs[abs_path]) <= max_file_size
    THEN { prepare_file_document(abs_path) }
    ELSE {}

\* delete_term, the re-add, commit and reader reload; the writer and the
\* writer_lock guard are dropped at the end of the call.
RfCommit(r) ==
    /\ rpc[r] = "commit"
    /\ \E outcome \in { "committed", "commit_failed", "reload_failed" } :
        LET abs_path == JoinPath(WorkspaceRoot, rargs[r].file_path)
        IN  /\ docs' = IF outcome = "commit_failed" THEN docs
                       ELSE delete_term(docs, abs_path)
                              \cup ReindexedDocs(abs_path, rargs[r].change_type)
            /\ synced' = IF outcome = "commit_failed" THEN synced ELSE FALSE
            /\ last' = Step("RfCommit", outcome, << >>)
    /\ writers' = writers \ { << "reindex", r >> }
    /\ writer_lock' = 0
    /\ rpc' = [rpc EXCEPT ![r] = "idle"]
    /\ rst' = [rst EXCEPT ![r] = 0]
    /\ rargs' = [rargs EXCEPT ![r] = NoArgs]
    /\ UNCHANGED << fs, pending, now, last_reindex, is_indexing, indexes,
                    content_hashes, indexed_workspaces,
                    ipc, ist, ilocals, written >>

    /\ UNCHANGED outside_indexing

\* ------------------------------------------------ the environment

\* A program outside the daemon writes content c to file f.
WriteFile(f, c) ==
    /\ pending' = [pending EXCEPT ![f] = IF fs[f] = Absent THEN "create" ELSE "modify"]
    /\ fs' = [fs EXCEPT ![f] = c]
    /\ written' = [written EXCEPT ![f] = indexed_workspaces]
    /\ synced' = FALSE
    /\ last' = Silent
    /\ UNCHANGED << now, last_reindex, is_indexing, indexes, docs, content_hashes,
                    indexed_workspaces, writers, writer_lock, ipc, ist, ilocals,
                    rpc, rst, rargs >>

    /\ UNCHANGED outside_indexing
\* A program outside the daemon deletes file f.
DeleteFile(f) ==
    /\ fs[f] # Absent
    /\ pending' = [pending EXCEPT ![f] = "remove"]
    /\ fs' = [fs EXCEPT ![f] = Absent]
    /\ written' = [written EXCEPT ![f] = FALSE]
    /\ synced' = FALSE
    /\ last' = Silent
    /\ UNCHANGED << now, last_reindex, is_indexing, indexes, docs, content_hashes,
                    indexed_workspaces, writers, writer_lock, ipc, ist, ilocals,
                    rpc, rst, rargs >>

    /\ UNCHANGED outside_indexing
\* Time passes.
Tick ==
    /\ now + TickMs <= MaxTime
    /\ now' = now + TickMs
    /\ last' = Silent
    /\ UNCHANGED << fs, pending, last_reindex, is_indexing, indexes, docs,
                    content_hashes, indexed_workspaces, writers, writer_lock,
                    ipc, ist, ilocals, rpc, rst, rargs, synced, written >>

    /\ UNCHANGED outside_indexing
\* ------------------------------------------------ the specification

\* The workspace has just been created over some tree: it is registered and
\* watched, and nothing is indexed or loaded yet.
IxInit ==
    /\ fs \in [Files -> Contents \cup {Absent}]
    /\ pending = [ f \in Files |-> "none" ]
    /\ now = 0
    /\ last_reindex = [ p \in RelPaths |-> NoInstant ]
    /\ is_indexing = << >>
    /\ indexes = 0
    /\ docs = {}
    /\ content_hashes = NoHashes
    /\ indexed_workspaces = FALSE
    /\ writers = {}
    /\ writer_lock = 0
    /\ ipc = [ t \in IndexTasks |-> "idle" ]
    /\ ist = [ t \in IndexTasks |-> 0 ]
    /\ ilocals = [ t \in IndexTasks |-> NoLocals ]
    /\ rpc = [ r \in ReindexTasks |-> "idle" ]
    /\ rst = [ r \in ReindexTasks |-> 0 ]
    /\ rargs = [ r \in ReindexTasks |-> NoArgs ]
    /\ last = Silent
    /\ synced = FALSE
    /\ written = [ f \in Files |-> FALSE ]

\* Every operation of the indexing subsystem; a trigger of a full rebuild
\* arrives while no other rebuild is under way.
IxNext ==
    \/ \E t \in IndexTasks : ~RebuildUnfinished /\ HttpIndexWorkspace(t)
    \/ \E t \in IndexTasks : ~RebuildUnfinished /\ WsTriggerIndex(t)
    \/ \E t \in IndexTasks : ~RebuildUnfinished /\ ActivateWorkspace(t)
    \/ \E t \in IndexTasks : IwLookup(t)
    \/ \E t \in IndexTasks : IwCreate(t)
    \/ \E t \in IndexTasks : IwCas(t)
    \/ \E t \in IndexTasks : IwWalk(t)
    \/ \E t \in IndexTasks : IwWriter(t)
    \/ \E t \in IndexTasks : IwCommit(t)
    \/ \E batch \in SUBSET Files, sweep \in BOOLEAN : WatcherCallback(batch, sweep)
    \/ \E r \in ReindexTasks : RfLookup(r)
    \/ \E r \in ReindexTasks : RfLock(r)
    \/ \E r \in ReindexTasks : RfCheck(r)
    \/ \E r \in ReindexTasks : RfWriter(r)
    \/ \E r \in ReindexTasks : RfCommit(r)
    \/ \E f \in ChangingFiles, c \in Contents : WriteFile(f, c)
    \/ \E f \in ChangingFiles : DeleteFile(f)
    \/ Tick

\* Concurrent triggers of a full rebuild over a tree that does not change: the
\* triggers and the steps of index_workspace of every task interleave freely.
TriggerNext ==
    \/ \E t \in IndexTasks : HttpIndexWorkspace(t)
    \/ \E t \in IndexTasks : WsTriggerIndex(t)
    \/ \E t \in IndexTasks : ActivateWorkspace(t)
    \/ \E t \in IndexTasks : IwLookup(t)
    \/ \E t \in IndexTasks : IwCreate(t)
    \/ \E t \in IndexTasks : IwCas(t)
    \/ \E t \in IndexTasks : IwWalk(t)
    \/ \E t \in IndexTasks : IwWriter(t)
    \/ \E t \in IndexTasks : IwCommit(t)



\* ------------------------------------- the directory tree and its paths

\* The longest chain of symbolic links a resolution follows.
MaxLinkHops == 2

\* Directories, regular files and symbolic links, as absolute paths (sequences
\* of components); a link's target is an absolute path, which may not exist.
Dirs == { << >>, <<"tmp">>, <<"tmp", "A">>, <<"tmp", "A", "sub">>, <<"tmp", "B">> }
RegularFiles == { <<"tmp", "A", "a.rs">>, <<"tmp", "B", "secret">> }
Symlinks == { <<"tmp", "A", "out">>, <<"tmp", "A", "new">>, <<"tmp", "A", "in">> }
SymlinkTarget(link) ==
    CASE link = <<"tmp", "A", "out">> -> <<"tmp", "B">>
      [] link = <<"tmp", "A", "new">> -> <<"tmp", "B", "fresh">>
      [] OTHER -> <<"tmp", "A", "sub">>

PathOk(path) == [ ok |-> TRUE, path |-> path ]
PathErr == [ ok |-> FALSE, path |-> << >> ]

\* Path::parent and Path::file_name of a path without "." components: the
\* name is empty when the path ends in "..".
Parent(path) == SubSeq(path, 1, Len(path) - 1)
FileNameOf(path) ==
    IF path[Len(path)] = ".." THEN << >> ELSE << path[Len(path)] >>

\* Path::starts_with: a whole-component prefix.
StartsWith(path, base) ==
    Len(base) <= Len(path) /\ SubSeq(path, 1, Len(base)) = base

\* The resolution of the components `rest` from the resolved directory `cur`,
\* as realpath does it: "." stays, ".." goes to the parent, a link is replaced
\* by its target, and every component must exist.  With `create` the last
\* component may be missing in an existing directory, as for a file about to
\* be created.
RECURSIVE ResolveFrom(_, _, _, _)
ResolveFrom(cur, rest, hops, create) ==
    IF rest = << >> THEN PathOk(cur)
    ELSE LET c == Head(rest)
             node == Append(cur, c)
         IN  IF cur \notin Dirs THEN PathErr
             ELSE IF c = "." THEN ResolveFrom(cur, Tail(rest), hops, create)
             ELSE IF c = ".."
                  THEN ResolveFrom(IF cur = << >> THEN cur ELSE Parent(cur),
                                   Tail(rest), hops, create)
             ELSE IF node \in Symlinks
                  THEN IF hops = 0 THEN PathErr
                       ELSE ResolveFrom(<< >>, SymlinkTarget(node) \o Tail(rest),
                                        hops - 1, create)
             ELSE IF node \in Dirs \cup RegularFiles
                  THEN ResolveFrom(node, Tail(rest), hops, create)
             ELSE IF create /\ Tail(rest) = << >> THEN PathOk(node)
             ELSE PathErr

\* dunce::canonicalize: all links resolved, every component exists.
canonicalize(path) == ResolveFrom(<< >>, path, MaxLinkHops, FALSE)

\* The file that creating or writing `path` touches: links followed, the last
\* component possibly new.
WriteTarget(path) == ResolveFrom(<< >>, path, MaxLinkHops, TRUE)

\* Path::is_file, which follows links.
is_file(path) == canonicalize(path).ok /\ canonicalize(path).path \in RegularFiles


\* --------------------------------------------- WorkspaceManager, the catalog

MaxCreateCalls == 2
MaxActivateCalls == 2
MaxWorkspaces == 2
MaxCatalogTime == 1

CreateCalls == 1..MaxCreateCalls
ActivateCalls == 1..MaxActivateCalls
WorkspaceIds == 1..MaxWorkspaces

\* The paths a client asks to register.
CreatePaths ==
    { <<"tmp", "A">>, <<"tmp", ".", "A">>, <<"tmp", "A", "out">>, <<"tmp", "B">>,
      <<"tmp", "gone">> }

NoWorkspaces == [ id \in {} |-> << >> ]

\* What a catalog call returned: the call, the workspace, the error if any.
Returned(op, id, err) == [ op |-> op, id |-> id, err |-> err ]

\* The duplicate check of create_workspace: some registered root has the
\* canonical form `canonical`.
RootRegistered(canonical) ==
    \E id \in DOMAIN workspaces :
        LET c == canonicalize(workspaces[id].path)
        IN  c.ok /\ c.path = canonical

\* The Workspace that create_workspace builds (of its statistics, the indexed
\* field is followed).
NewWorkspace(path, at) ==
    [ path |-> path, is_active |-> FALSE, last_accessed |-> at, indexed |-> FALSE ]

\* persist: the whole map written to workspaces.json.
Persist(map) ==
    workspaces_file' = map

\* create_workspace up to its insert: canonicalize the path, then look for a
\* workspace with the same canonical root.
CreateCheck(c, path) ==
    /\ cpc[c] = "idle"
    /\ LET canonical == canonicalize(path)
       IN  IF ~canonical.ok
           THEN /\ wlast' = Returned("create_workspace", 0, "FileNotFound")
                /\ UNCHANGED << cpc, clocals >>
           ELSE IF RootRegistered(canonical.path)
           THEN /\ wlast' = Returned("create_workspace", 0, "WorkspaceAlreadyExists")
                /\ UNCHANGED << cpc, clocals >>
           ELSE /\ cpc' = [cpc EXCEPT ![c] = "insert"]
                /\ clocals' = [clocals EXCEPT ![c] = canonical.path]
                /\ UNCHANGED wlast
    /\ UNCHANGED << workspaces, workspaces_file, apc, aid, uuids, wnow >>
    /\ UNCHANGED outside_catalog

\* create_workspace from its insert: a new id, the insert into the map, persist.
CreateInsert(c) ==
    /\ cpc[c] = "insert"
    /\ uuids < MaxWorkspaces
    /\ LET id == uuids + 1
           map == [ i \in DOMAIN workspaces \cup { id } |->
                      IF i = id
                      THEN NewWorkspace(clocals[c], wnow)
                      ELSE workspaces[i] ]
       IN  /\ workspaces' = map
           /\ Persist(map)
           /\ wlast' = Returned("create_workspace", id, "none")
    /\ uuids' = uuids + 1
    /\ cpc' = [cpc EXCEPT ![c] = "idle"]
    /\ clocals' = [clocals EXCEPT ![c] = << >>]
    /\ UNCHANGED << apc, aid, wnow >>
    /\ UNCHANGED outside_catalog

\* remove_workspace
RemoveWorkspace(id) ==
    /\ IF id \in DOMAIN workspaces
       THEN LET map == [ i \in DOMAIN workspaces \ { id } |-> workspaces[i] ]
            IN  /\ workspaces' = map
                /\ Persist(map)
                /\ wlast' = Returned("remove_workspace", id, "none")
       ELSE /\ wlast' = Returned("remove_workspace", id, "WorkspaceNotFound")
            /\ UNCHANGED << workspaces, workspaces_file >>
    /\ UNCHANGED << cpc, clocals, apc, aid, uuids, wnow >>
    /\ UNCHANGED outside_catalog

\* activate_workspace, its first loop: every workspace is deactivated.
ActivateDeactivate(a, id) ==
    /\ apc[a] = "idle"
    /\ workspaces' = [ i \in DOMAIN workspaces |->
                         [ workspaces[i] EXCEPT !.is_active = FALSE ] ]
    /\ apc' = [apc EXCEPT ![a] = "set"]
    /\ aid' = [aid EXCEPT ![a] = id]
    /\ UNCHANGED << workspaces_file, cpc, clocals, uuids, wnow, wlast >>
    /\ UNCHANGED outside_catalog

\* activate_workspace from get_mut: the workspace asked for becomes active and
\* its last_accessed is set, then persist; without it WorkspaceNotFound.
ActivateSet(a) ==
    /\ apc[a] = "set"
    /\ IF aid[a] \in DOMAIN workspaces
       THEN LET map == [ workspaces EXCEPT ![aid[a]] =
                           [ @ EXCEPT !.is_active = TRUE, !.last_accessed = wnow ] ]
            IN  /\ workspaces' = map
                /\ Persist(map)
                /\ wlast' = Returned("activate_workspace", aid[a], "none")
       ELSE /\ wlast' = Returned("activate_workspace", aid[a], "WorkspaceNotFound")
            /\ UNCHANGED << workspaces, workspaces_file >>
    /\ apc' = [apc EXCEPT ![a] = "idle"]
    /\ aid' = [aid EXCEPT ![a] = 0]
    /\ UNCHANGED << cpc, clocals, uuids, wnow >>
    /\ UNCHANGED outside_catalog

\* Time passes for the catalog.
CatalogTick ==
    /\ wnow < MaxCatalogTime
    /\ wnow' = wnow + 1
    /\ UNCHANGED << workspaces, workspaces_file, cpc, clocals, apc, aid, uuids, wlast >>
    /\ UNCHANGED outside_catalog

\* The catalog of a daemon started on an empty data directory.
WsInit ==
    /\ workspaces = NoWorkspaces
    /\ workspaces_file = NoWorkspaces
    /\ cpc = [ c \in CreateCalls |-> "idle" ]
    /\ clocals = [ c \in CreateCalls |-> << >> ]
    /\ apc = [ a \in ActivateCalls |-> "idle" ]
    /\ aid = [ a \in ActivateCalls |-> 0 ]
    /\ uuids = 0
    /\ wnow = 0
    /\ wlast = Returned("none", 0, "none")

CatalogNext ==
    \/ \E c \in CreateCalls, path \in CreatePaths : CreateCheck(c, path)
    \/ \E c \in CreateCalls : CreateInsert(c)
    \/ \E id \in WorkspaceIds : RemoveWorkspace(id)
    \/ \E a \in ActivateCalls, id \in WorkspaceIds : ActivateDeactivate(a, id)
    \/ \E a \in ActivateCalls : ActivateSet(a)
    \/ CatalogTick

\* ------------------------------------- persist, followed step by step

\* Catalog calls that may be under way at once, and the calls followed.
MaxMutCalls == 2
MaxMutations == 3
MutCalls == 1..MaxMutCalls

\* The in-memory changes of the catalog calls.
MutOps == { "create_workspace", "remove_workspace", "activate_workspace",
            "update_workspace_stats" }

\* The roots the calls followed through persist register.
MutPaths == { <<"tmp", "A">>, <<"tmp", "B">> }

\* A file of the data directory: just created or truncated, and filled.
EmptyFile == [ content |-> NoWorkspaces, complete |-> FALSE ]
WrittenFile(map) == [ content |-> map, complete |-> TRUE ]

\* What workspaces.json holds, given the files and the file it names.
TargetContent(files, link, before) ==
    IF link = 0 THEN before ELSE files[link].content

\* The map after the in-memory change of a call (every workspace the call
\* names is registered, and the root of a create is not).
Mutated(op, id, path) ==
    CASE op = "create_workspace" ->
           [ i \in DOMAIN workspaces \cup { id } |->
               IF i = id THEN NewWorkspace(path, wnow) ELSE workspaces[i] ]
      [] op = "remove_workspace" ->
           [ i \in DOMAIN workspaces \ { id } |-> workspaces[i] ]
      [] op = "activate_workspace" ->
           [ i \in DOMAIN workspaces |->
               IF i = id
               THEN [ workspaces[i] EXCEPT !.is_active = TRUE, !.last_accessed = wnow ]
               ELSE [ workspaces[i] EXCEPT !.is_active = FALSE ] ]
      [] op = "update_workspace_stats" ->
           [ workspaces EXCEPT ![id] = [ @ EXCEPT !.indexed = TRUE ] ]

\* A catalog call up to its persist: the change of the map.
MutateCatalog(m, op, id, path) ==
    /\ mpc[m] = "idle"
    /\ mcalls < MaxMutations
    /\ IF op = "create_workspace"
       THEN /\ id = uuids + 1
            /\ id <= MaxWorkspaces
            /\ canonicalize(path).ok
            /\ ~RootRegistered(canonicalize(path).path)
            /\ uuids' = uuids + 1
       ELSE /\ id \in DOMAIN workspaces
            /\ UNCHANGED uuids
    /\ workspaces' = Mutated(op, id, path)
    /\ mpc' = [mpc EXCEPT ![m] = "collect"]
    /\ mcalls' = mcalls + 1
    /\ wlast' = Returned(op, id, "pending")
    /\ UNCHANGED << workspaces_file, cpc, clocals, apc, aid, wnow >>
    /\ UNCHANGED << msnap, mfd, inodes, tmp_link, target_link, mfailed >>
    /\ UNCHANGED outside_catalog_files

\* persist: the map collected into a Vec and serialised.
PersistCollect(m) ==
    /\ mpc[m] = "collect"
    /\ msnap' = [msnap EXCEPT ![m] = workspaces]
    /\ mpc' = [mpc EXCEPT ![m] = "open"]
    /\ UNCHANGED << mfd, inodes, tmp_link, target_link, mcalls, mfailed >>
    /\ UNCHANGED wsvars
    /\ UNCHANGED outside_catalog_files

\* std::fs::write(&tmp, ..), the open: workspaces.json.tmp is created, or
\* truncated when it exists.
PersistOpen(m) ==
    /\ mpc[m] = "open"
    /\ IF tmp_link = 0
       THEN /\ inodes' = Append(inodes, EmptyFile)
            /\ tmp_link' = Len(inodes) + 1
            /\ mfd' = [mfd EXCEPT ![m] = Len(inodes) + 1]
       ELSE /\ inodes' = [inodes EXCEPT ![tmp_link] = EmptyFile]
            /\ mfd' = [mfd EXCEPT ![m] = tmp_link]
            /\ UNCHANGED tmp_link
    /\ mpc' = [mpc EXCEPT ![m] = "write"]
    /\ workspaces_file' = TargetContent(inodes', target_link, workspaces_file)
    /\ UNCHANGED << msnap, target_link, mcalls, mfailed >>
    /\ UNCHANGED << workspaces, cpc, clocals, apc, aid, uuids, wnow, wlast >>
    /\ UNCHANGED outside_catalog_files

\* std::fs::write(&tmp, ..), the write: the serialised map goes into the file
\* that was opened, whatever names it by now.
PersistWrite(m) ==
    /\ mpc[m] = "write"
    /\ inodes' = [inodes EXCEPT ![mfd[m]] = WrittenFile(msnap[m])]
    /\ mpc' = [mpc EXCEPT ![m] = "rename"]
    /\ workspaces_file' = TargetContent(inodes', target_link, workspaces_file)
    /\ UNCHANGED << msnap, mfd, tmp_link, target_link, mcalls, mfailed >>
    /\ UNCHANGED << workspaces, cpc, clocals, apc, aid, uuids, wnow, wlast >>
    /\ UNCHANGED outside_catalog_files

\* std::fs::rename(&tmp, &target), and the return of the call: the error of a
\* rename that finds no workspaces.json.tmp is returned with `?`.
PersistRename(m) ==
    /\ mpc[m] = "rename"
    /\ IF tmp_link = 0
       THEN /\ mfailed' = TRUE
            /\ wlast' = [ wlast EXCEPT !.op = "persist", !.err = "IoError" ]
            /\ UNCHANGED << tmp_link, target_link, workspaces_file >>
       ELSE /\ target_link' = tmp_link
            /\ tmp_link' = 0
            /\ workspaces_file' = inodes[tmp_link].content
            /\ wlast' = [ wlast EXCEPT !.op = "persist", !.err = "none" ]
            /\ UNCHANGED mfailed
    /\ mpc' = [mpc EXCEPT ![m] = "idle"]
    /\ msnap' = [msnap EXCEPT ![m] = NoWorkspaces]
    /\ mfd' = [mfd EXCEPT ![m] = 0]
    /\ UNCHANGED << inodes, mcalls >>
    /\ UNCHANGED << workspaces, cpc, clocals, apc, aid, uuids, wnow >>
    /\ UNCHANGED outside_catalog_files

\* No catalog call is followed through persist.
PerInit ==
    /\ mpc = [ m \in MutCalls |-> "idle" ]
    /\ msnap = [ m \in MutCalls |-> NoWorkspaces ]
    /\ mfd = [ m \in MutCalls |-> 0 ]
    /\ inodes = << >>
    /\ tmp_link = 0
    /\ target_link = 0
    /\ mcalls = 0
    /\ mfailed = FALSE

\* Concurrent catalog calls, each from its change of the map to the end of
\* its persist.
PersistNext ==
    \/ \E m \in MutCalls, op \in MutOps, id \in WorkspaceIds, path \in MutPaths :
          MutateCatalog(m, op, id, path)
    \/ \E m \in MutCalls : PersistCollect(m)
    \/ \E m \in MutCalls : PersistOpen(m)
    \/ \E m \in MutCalls : PersistWrite(m)
    \/ \E m \in MutCalls : PersistRename(m)


\* ------------------------------- validate_path and the file handlers

MaxPathLen == 3

\* The workspace the file requests name is registered with this root.
RequestRoot == <<"tmp", "A">>

\* The relative paths a client sends: up to MaxPathLen components.
PathComponents ==
    { "..", "sub", "a.rs", "out", "new", "in", "B", "secret", "fresh", "etc", "passwd" }
RequestPaths ==
    UNION { [ 1..n -> PathComponents ] : n \in 1..MaxPathLen }

\* WorkspaceManager::validate_path for a workspace registered at ws_path:
\* canonicalize the joined path, or for a path that does not exist its parent
\* joined with the file name; then require the canonical root as a prefix.
validate_path(ws_path, file_path) ==
    LET full_path == ws_path \o file_path
        whole == canonicalize(full_path)
        parent == canonicalize(Parent(full_path))
        canonical == IF whole.ok THEN whole
                     ELSE IF full_path # << >> /\ parent.ok
                          THEN PathOk(parent.path \o FileNameOf(full_path))
                          ELSE PathErr
        ws_canonical == canonicalize(ws_path)
    IN  IF ~canonical.ok THEN [ err |-> "FileNotFound", path |-> << >> ]
        ELSE IF ~ws_canonical.ok THEN [ err |-> "WorkspaceNotFound", path |-> << >> ]
        ELSE IF ~StartsWith(canonical.path, ws_canonical.path)
             THEN [ err |-> "PathNotAllowed", path |-> << >> ]
        ELSE [ err |-> "none", path |-> canonical.path ]

\* AppError::into_response: the HTTP status of an error, 200 without one.
StatusCode(err) ==
    CASE err = "none" -> 200
      [] err \in { "WorkspaceNotFound", "FileNotFound" } -> 404
      [] err = "WorkspaceAlreadyExists" -> 409
      [] err = "PathNotAllowed" -> 403
      [] err \in { "Serde", "BadRequest" } -> 400
      [] OTHER -> 500

\* The outcome of a file handler: the validated path, the error returned, and
\* the file the operation read or wrote (none when it was not performed).
Handled(handler, file_path, validated, err, touched) ==
    [ handler |-> handler, path |-> file_path, done |-> TRUE, validated |-> validated,
      err |-> err, status |-> StatusCode(err), touched |-> touched ]

\* A request that has arrived and is not handled yet.
Incoming(handler, file_path) ==
    [ Handled(handler, file_path, [ err |-> "none", path |-> << >> ], "none", PathErr)
      EXCEPT !.done = FALSE ]

NoRequest == Incoming("none", << >>)

\* read_file_inner: validate_path, the is_file test, then the read.  (The
\* files of the tree are below the size cap.)
read_file_inner(file_path) ==
    LET v == validate_path(RequestRoot, file_path)
    IN  IF v.err # "none" THEN Handled("read_file", file_path, v, v.err, PathErr)
        ELSE IF ~is_file(v.path)
             THEN Handled("read_file", file_path, v, "FileNotFound", PathErr)
        ELSE Handled("read_file", file_path, v, "none", canonicalize(v.path))

\* write_file: validate_path, create_dir_all on the parent (which exists), then
\* tokio::fs::write, which follows links and fails on a directory.
write_file(file_path) ==
    LET v == validate_path(RequestRoot, file_path)
        target == WriteTarget(v.path)
    IN  IF v.err # "none" THEN Handled("write_file", file_path, v, v.err, PathErr)
        ELSE IF ~target.ok \/ target.path \in Dirs
             THEN Handled("write_file", file_path, v, "Io", PathErr)
        ELSE Handled("write_file", file_path, v, "none", target)

\* The read handler answers the request.
ReadFile ==
    /\ freq.handler = "read_file" /\ ~freq.done
    /\ freq' = read_file_inner(freq.path)
    /\ UNCHANGED outside_files

\* The write handler answers the request.
WriteFileRequest ==
    /\ freq.handler = "write_file" /\ ~freq.done
    /\ freq' = write_file(freq.path)
    /\ UNCHANGED outside_files

\* No file request.
PvInit == freq = NoRequest

\* One file request, of either handler, for any of the request paths.
RequestInit ==
    freq \in { Incoming(h, p) : h \in { "read_file", "write_file" }, p \in RequestPaths }

FilesNext ==
    \/ ReadFile
    \/ WriteFileRequest


\* ------------------ the indexing events of the background indexing tasks

\* The spawned tasks of one workspace, the most files a walk finds, and the
\* most calls of spawn_background_indexing.
EvTasks == 1..2
MaxEvFiles == 3
MaxEvCalls == 3
\* The terminators counted after an IndexingStarted.
MaxEnds == 2
\* The values of VYOTIQ_INDEX_BATCH_SIZE that send progress over so few files.
EvBatchSizes == { 1, 2 }

\* ServerEvent, as far as the lexical indexing events go; no event.
EvSilent == [ type |-> "none", indexed |-> 0, total |-> 0 ]
IndexingStarted == [ type |-> "IndexingStarted", indexed |-> 0, total |-> 0 ]
IndexingProgress(indexed, total) ==
    [ type |-> "IndexingProgress", indexed |-> indexed, total |-> total ]
IndexingCompleted == [ type |-> "IndexingCompleted", indexed |-> 0, total |-> 0 ]
IndexingError == [ type |-> "IndexingError", indexed |-> 0, total |-> 0 ]

\* The locals of index_workspace: files.len(), files_to_index.len(),
\* file_data.len() and the documents added so far.
EvNoLocals == [ total |-> 0, files_to_index |-> 0, file_data |-> 0, added |-> 0 ]

\* The history after an event has been sent.
Logged(log, e) ==
    IF e.type = "none" THEN log
    ELSE IF e.type = "IndexingStarted" THEN [ started |-> TRUE, ends |-> 0, indexed |-> 0 ]
    ELSE IF e.type = "IndexingProgress" THEN [ log EXCEPT !.indexed = e.indexed ]
    ELSE IF log.started /\ log.ends < MaxEnds THEN [ log EXCEPT !.ends = @ + 1 ]
    ELSE log

\* event_tx.send
EvSend(e) ==
    /\ ev_last' = e
    /\ ev_log' = Logged(ev_log, e)

\* spawn_background_indexing up to tokio::spawn: it returns at once when the
\* status of the workspace says that a rebuild is under way.
EvSpawn(t) ==
    /\ ev_pc[t] = "idle"
    /\ ev_calls < MaxEvCalls
    /\ ev_calls' = ev_calls + 1
    /\ ev_pc' = [ev_pc EXCEPT ![t] = IF ev_index /\ ev_is_indexing THEN "idle"
                                      ELSE "index_workspace"]
    /\ EvSend(EvSilent)
    /\ UNCHANGED << ev_index, ev_is_indexing, ev_indexed_count, ev_locals, ev_batch_size >>
    /\ UNCHANGED outside_events

\* index_workspace from get_or_create_index to IndexingStarted: the index is
\* opened or created when missing, which may fail; the compare_exchange on
\* is_indexing; the walk and the comparison with the catalog, which find
\* `total` files, `files_to_index` of them new or changed, and paths to
\* remove or none; the early return when nothing differs.  The spawned task
\* sends IndexingError when index_workspace returns an error.
EvIndexWorkspace(t) ==
    /\ ev_pc[t] = "index_workspace"
    /\ \E created \in BOOLEAN, total \in 0..MaxEvFiles, removed \in BOOLEAN :
       \E files_to_index \in 0..total :
        IF ~ev_index /\ ~created
        THEN /\ EvSend(IndexingError)
             /\ ev_pc' = [ev_pc EXCEPT ![t] = "vectors"]
             /\ UNCHANGED << ev_index, ev_is_indexing, ev_indexed_count, ev_locals >>
        ELSE IF ev_index /\ ev_is_indexing
        THEN /\ EvSend(EvSilent)
             /\ ev_pc' = [ev_pc EXCEPT ![t] = "vectors"]
             /\ UNCHANGED << ev_index, ev_is_indexing, ev_indexed_count, ev_locals >>
        ELSE IF files_to_index = 0 /\ ~removed
        THEN /\ ev_index' = TRUE
             /\ ev_indexed_count' = total
             /\ EvSend(EvSilent)
             /\ ev_pc' = [ev_pc EXCEPT ![t] = "vectors"]
             /\ UNCHANGED << ev_is_indexing, ev_locals >>
        ELSE /\ ev_index' = TRUE
             /\ ev_is_indexing' = TRUE
             /\ ev_indexed_count' = 0
             /\ EvSend(IndexingStarted)
             /\ ev_locals' = [ev_locals EXCEPT ![t] =
                    [ total |-> total, files_to_index |-> files_to_index,
                      file_data |-> 0, added |-> 0 ]]
             /\ ev_pc' = [ev_pc EXCEPT ![t] = "writer"]
    /\ UNCHANGED << ev_batch_size, ev_calls >>
    /\ UNCHANGED outside_events

\* state.index.writer(50_000_000), the delete_term calls and the preparation
\* of the documents, which skips the files it cannot read.  When the writer
\* cannot be opened index_workspace returns the error, with is_indexing as
\* it is.
EvWriter(t) ==
    /\ ev_pc[t] = "writer"
    /\ \E ok \in BOOLEAN, file_data \in 0..ev_locals[t].files_to_index :
        IF ok
        THEN /\ ev_locals' = [ev_locals EXCEPT ![t].file_data = file_data]
             /\ ev_pc' = [ev_pc EXCEPT ![t] = "add"]
             /\ EvSend(EvSilent)
        ELSE /\ ev_locals' = [ev_locals EXCEPT ![t] = EvNoLocals]
             /\ ev_pc' = [ev_pc EXCEPT ![t] = "vectors"]
             /\ EvSend(IndexingError)
    /\ UNCHANGED << ev_index, ev_is_indexing, ev_indexed_count, ev_batch_size, ev_calls >>
    /\ UNCHANGED outside_events

\* One turn of the add loop: add_document, indexed_count.fetch_add(1), and
\* IndexingProgress when the count is a multiple of batch_size.
EvAddDocument(t) ==
    /\ ev_pc[t] = "add"
    /\ ev_locals[t].added < ev_locals[t].file_data
    /\ LET indexed == ev_indexed_count + 1
       IN  /\ ev_indexed_count' = indexed
           /\ EvSend(IF indexed % ev_batch_size = 0
                     THEN IndexingProgress(indexed, ev_locals[t].files_to_index)
                     ELSE EvSilent)
    /\ ev_locals' = [ev_locals EXCEPT ![t].added = @ + 1]
    /\ UNCHANGED << ev_pc, ev_index, ev_is_indexing, ev_batch_size, ev_calls >>
    /\ UNCHANGED outside_events

\* After the loop: commit and reader reload, either of which may fail and
\* return the error; else the sidecar update, indexed_count = total, the
\* release of is_indexing and IndexingCompleted.
EvCommit(t) ==
    /\ ev_pc[t] = "add"
    /\ ev_locals[t].added = ev_locals[t].file_data
    /\ \E outcome \in { "committed", "commit_failed", "reload_failed" } :
        IF outcome = "committed"
        THEN /\ ev_indexed_count' = ev_locals[t].total
             /\ ev_is_indexing' = FALSE
             /\ EvSend(IndexingCompleted)
        ELSE /\ EvSend(IndexingError)
             /\ UNCHANGED << ev_indexed_count, ev_is_indexing >>
    /\ ev_locals' = [ev_locals EXCEPT ![t] = EvNoLocals]
    /\ ev_pc' = [ev_pc EXCEPT ![t] = "vectors"]
    /\ UNCHANGED << ev_index, ev_batch_size, ev_calls >>
    /\ UNCHANGED outside_events

\* The vector phase of the spawned task: index_workspace_vectors, and
\* IndexingError when it returns an error.
EvVectors(t) ==
    /\ ev_pc[t] = "vectors"
    /\ \E ok \in BOOLEAN : EvSend(IF ok THEN EvSilent ELSE IndexingError)
    /\ ev_pc' = [ev_pc EXCEPT ![t] = "idle"]
    /\ UNCHANGED << ev_index, ev_is_indexing, ev_indexed_count, ev_locals, ev_batch_size,
                    ev_calls >>
    /\ UNCHANGED outside_events

\* No task spawned and no index yet.
EvQuiet ==
    /\ ev_pc = [ t \in EvTasks |-> "idle" ]
    /\ ev_index = FALSE
    /\ ev_is_indexing = FALSE
    /\ ev_indexed_count = 0
    /\ ev_locals = [ t \in EvTasks |-> EvNoLocals ]
    /\ ev_last = EvSilent
    /\ ev_log = [ started |-> FALSE, ends |-> 0, indexed |-> 0 ]
    /\ ev_calls = 0
EvIdle == EvQuiet /\ ev_batch_size = batch_size
EvStart == EvQuiet /\ ev_batch_size \in EvBatchSizes

EventsNext ==
    \/ \E t \in EvTasks : EvSpawn(t)
    \/ \E t \in EvTasks : EvIndexWorkspace(t)
    \/ \E t \in EvTasks : EvWriter(t)
    \/ \E t \in EvTasks : EvAddDocument(t)
    \/ \E t \in EvTasks : EvCommit(t)
    \/ \E t \in EvTasks : EvVectors(t)

\* ------------------------- the path keys of the lexical index's documents

\* The relative paths a client sends in a reindex_file command: a file by
\* its plain name, with a "." and with a ".." segment, a file of a
\* subdirectory, the subdirectory, and a path that leaves the workspace.
KeyPaths ==
    { <<"a.rs">>, <<".", "a.rs">>, <<"sub", "..", "a.rs">>, <<"sub", "a.rs">>, <<"sub">>,
      <<"..", "B", "secret">> }

\* The files that may be on disk in the workspace, and the paths of the
\* regular files given those that are.
KeyFiles == { RequestRoot \o <<"a.rs">>, RequestRoot \o <<"sub", "a.rs">> }

\* std::fs::canonicalize of a path of the workspace: links and dot segments
\* resolved; the last component is one of the workspace's files or a
\* directory.
RECURSIVE KeyResolve(_, _, _)
KeyResolve(cur, rest, hops) ==
    IF rest = << >> THEN PathOk(cur)
    ELSE LET c == Head(rest)
             node == Append(cur, c)
         IN  IF cur \notin Dirs THEN PathErr
             ELSE IF c = "." THEN KeyResolve(cur, Tail(rest), hops)
             ELSE IF c = ".."
                  THEN KeyResolve(IF cur = << >> THEN cur ELSE Parent(cur), Tail(rest), hops)
             ELSE IF node \in Symlinks
                  THEN IF hops = 0 THEN PathErr
                       ELSE KeyResolve(<< >>, SymlinkTarget(node) \o Tail(rest), hops - 1)
             ELSE IF node \in Dirs \cup key_files
                  THEN KeyResolve(node, Tail(rest), hops)
             ELSE PathErr

\* The file on disk a path names, if any.
KeyTarget(path) == KeyResolve(<< >>, path, MaxLinkHops)

\* WorkspaceManager::validate_path on the workspace, for a path that exists
\* or whose parent does.
KeyValidate(file_path) ==
    LET full_path == RequestRoot \o file_path
        whole == KeyTarget(full_path)
        parent == KeyTarget(Parent(full_path))
        canonical == IF whole.ok THEN whole
                     ELSE IF parent.ok
                          THEN PathOk(parent.path \o FileNameOf(full_path))
                          ELSE PathErr
    IN  canonical.ok /\ StartsWith(canonical.path, RequestRoot)

\* A document of the index: the path term it is found by, and the file on
\* disk it was prepared from.
KeyDocument(path) == [ path |-> path, file |-> KeyTarget(path).path ]

\* PathBuf::from(workspace_path).join(file_path) in reindex_file: the
\* components of file_path are kept as they are.
ReindexKey(workspace_path, file_path) == JoinPath(workspace_path, file_path)

\* The files the walk of index_workspace collects, as the walker names them.
KeyWalk ==
    { f \in key_files : ~GitIgnored(f) /\ ~is_build_or_output_dir(f) /\ is_indexable(f) }

\* What a call on the index did.
KeyDone(op, path, outcome) == [ op |-> op, path |-> path, outcome |-> outcome ]

\* index_workspace on the workspace, in one step: the index is created when
\* missing; the catalog decides what is removed and what is added (the
\* contents of the files do not change, so a path of the catalog is up to
\* date).
KeyIndexWorkspace ==
    /\ LET files_to_index == KeyWalk \ key_catalog
           paths_to_remove == key_catalog \ KeyWalk
       IN  /\ key_docs' = AfterDeletes(key_docs, paths_to_remove, files_to_index)
                             \cup { KeyDocument(f) : f \in files_to_index }
           /\ key_catalog' = KeyWalk
    /\ key_index' = TRUE
    /\ key_last' = KeyDone("index_workspace", << >>, "completed")
    /\ UNCHANGED key_files
    /\ UNCHANGED outside_keys

\* The reindex_file command of the WebSocket: validate_path, then
\* IndexManager::reindex_file with the path as the client sent it, which
\* returns at once without an index, and else deletes the documents of its
\* key and adds the file's document under this key.
SocketReindexFile(file_path, change_type) ==
    /\ IF ~KeyValidate(file_path)
       THEN /\ key_last' = KeyDone("reindex_file", file_path, "validation failed")
            /\ UNCHANGED key_docs
       ELSE IF ~key_index
       THEN /\ key_last' = KeyDone("reindex_file", file_path, "no index")
            /\ UNCHANGED key_docs
       ELSE LET abs_path == ReindexKey(RequestRoot, file_path)
                added == IF /\ change_type # "remove"
                            /\ KeyTarget(abs_path).ok
                            /\ KeyTarget(abs_path).path \in key_files
                            /\ is_indexable(abs_path)
                         THEN { KeyDocument(abs_path) }
                         ELSE {}
            IN  /\ key_docs' = delete_term(key_docs, abs_path) \cup added
                /\ key_last' = KeyDone("reindex_file", file_path,
                                       IF added = {} THEN "deleted" ELSE "added")
    /\ UNCHANGED << key_index, key_catalog, key_files >>
    /\ UNCHANGED outside_keys

\* A file of the workspace is created or deleted on disk.
KeyCreateFile(f) ==
    /\ f \notin key_files
    /\ key_files' = key_files \cup { f }
    /\ key_last' = KeyDone("create", f, "created")
    /\ UNCHANGED << key_index, key_docs, key_catalog >>
    /\ UNCHANGED outside_keys
KeyDeleteFile(f) ==
    /\ f \in key_files
    /\ key_files' = key_files \ { f }
    /\ key_last' = KeyDone("delete", f, "deleted")
    /\ UNCHANGED << key_index, key_docs, key_catalog >>
    /\ UNCHANGED outside_keys

\* A workspace that has just been registered: no index yet.
KeyInit ==
    /\ key_index = FALSE
    /\ key_docs = {}
    /\ key_catalog = {}
    /\ key_files = { RequestRoot \o <<"a.rs">> }
    /\ key_last = KeyDone("none", << >>, "none")

KeysNext ==
    \/ KeyIndexWorkspace
    \/ \E file_path \in KeyPaths, change_type \in { "modify", "remove" } :
          SocketReindexFile(file_path, change_type)
    \/ \E f \in KeyFiles : KeyCreateFile(f)
    \/ \E f \in KeyFiles : KeyDeleteFile(f)

\* --------------------------------- EmbeddingManager, the vector index

\* The calls of the vector specification: concurrent index_workspace_vectors
\* calls, and how many calls, restarts and seconds it follows.
MaxVecTasks == 2
MaxRvTasks == 1
MaxRebuildCalls == 2
MaxReindexCalls == 1
MaxRestarts == 1
MaxFlushCalls == 2
MaxVecTime == 10

VecTasks == 1..MaxVecTasks
RvTasks == 1..MaxRvTasks
VecWorkspaces == { "w1", "w2" }

\* embedder.rs: the chunking and batching constants, the save throttle
MAX_CHUNK_CHARS == 1024
CHUNK_OVERLAP_CHARS == 96
MAX_CHUNKS_PER_FILE == 200
EMBED_BATCH_SIZE == 32
SAVE_THROTTLE_SECS == 10
\* routes/search.rs, collect_indexable_files_pub: its own max_file_size, 10 MB
collect_max_file_size == 10485760

\* The bytes of the lines of a chunk, each with its newline.
RECURSIVE SumChars(_)
SumChars(ls) == IF ls = << >> THEN 0 ELSE ls[1] + 1 + SumChars(Tail(ls))

\* An overlap that starts one line beyond the chunk just emitted.
OverlapSkipsLine(chunk_lines, j, overlap_chars, overlap) == Len(chunk_lines) + 1

\* chunk_text, the overlap: the index (from 0) of the first line kept, found
\* by walking the chunk's lines backwards from line j (from 1).
RECURSIVE OverlapStart(_, _, _, _)
OverlapStart(chunk_lines, j, overlap_chars, overlap) ==
    IF j = 0 THEN Len(chunk_lines)
    ELSE LET seen == overlap_chars + chunk_lines[j] + 1
         IN  IF seen >= overlap THEN j - 1
             ELSE OverlapStart(chunk_lines, j - 1, seen, overlap)

\* chunk_text, the loop over the lines from line i (from 0) and the final chunk.
RECURSIVE ChunkLoop(_, _, _, _, _, _, _, _)
ChunkLoop(lines, i, chunks, chunk_start_line, chunk_lines, max_chars, overlap, max_chunks) ==
    IF i = Len(lines)
    THEN IF chunk_lines # << >> /\ Len(chunks) < max_chunks
         THEN Append(chunks, [ text |-> chunk_lines, line_start |-> chunk_start_line + 1,
                               line_end |-> Len(lines) ])
         ELSE chunks
    ELSE LET line == lines[i + 1]
         IN  IF SumChars(chunk_lines) + line + 1 > max_chars /\ chunk_lines # << >>
             THEN LET emitted == Append(chunks, [ text |-> chunk_lines,
                                                  line_start |-> chunk_start_line + 1,
                                                  line_end |-> i ])
                      overlap_start == OverlapStart(chunk_lines, Len(chunk_lines), 0, overlap)
                      kept_lines == SubSeq(chunk_lines, overlap_start + 1, Len(chunk_lines))
                  IN  IF Len(emitted) >= max_chunks THEN emitted
                      ELSE ChunkLoop(lines, i + 1, emitted, chunk_start_line + overlap_start,
                                     Append(kept_lines, line), max_chars, overlap, max_chunks)
             ELSE ChunkLoop(lines, i + 1, chunks, chunk_start_line,
                            Append(chunk_lines, line), max_chars, overlap, max_chunks)

\* chunk_text from its lines on: nothing for no lines, else the loop.  The
\* text of a chunk is the lengths of its lines, to be joined by newlines.
ChunkLines(lines, max_chars, overlap, max_chunks) ==
    IF lines = << >> THEN << >>
    ELSE ChunkLoop(lines, 0, << >>, 0, << >>, max_chars, overlap, max_chunks)

\* chunk_text(content, max_chars, overlap, max_chunks) of a named content
chunk_text(c, max_chars, overlap, max_chunks) ==
    ChunkLines(Lines(c), max_chars, overlap, max_chunks)

\* A content as the lengths of the segments its newlines separate: at least
\* one segment; the empty string is one empty segment.
EmptyContent == << 0 >>

\* str::lines: the segments, without the last one when it is empty (a final
\* newline ends the last line and starts none).
StrLines(segs) ==
    IF segs[Len(segs)] = 0 THEN SubSeq(segs, 1, Len(segs) - 1) ELSE segs

\* chunk_text without its test for empty content and without lines().
ChunkSegments(segs, max_chars, overlap, max_chunks) ==
    ChunkLines(segs, max_chars, overlap, max_chunks)

\* chunk_text(content, max_chars, overlap, max_chunks) of any content
ChunkTextOf(segs, max_chars, overlap, max_chunks) ==
    IF segs = EmptyContent THEN << >>
    ELSE ChunkLines(StrLines(segs), max_chars, overlap, max_chunks)

\* The chunks of each content under the constants of embedder.rs.
ChunkTable ==
    [ c \in VecContents |->
        chunk_text(c, MAX_CHUNK_CHARS, CHUNK_OVERLAP_CHARS, MAX_CHUNKS_PER_FILE) ]

\* The order in which a walk of the workspace meets its files.
WalkOrder == << JoinPath(WorkspaceRoot, <<"a.rs">>), JoinPath(WorkspaceRoot, <<"b.rs">>) >>

\* The workspace trees a vector rebuild may find.
Trees(w) ==
    IF w = "w1"
    THEN { tree \in [Files -> VecContents \cup {Absent}] :
             /\ tree[WalkOrder[1]] \in { "long", "big", Absent }
             /\ tree[WalkOrder[2]] \in { "c1", Absent } }
    ELSE { tree \in [Files -> VecContents \cup {Absent}] :
             /\ tree[WalkOrder[1]] \in { "c1", "huge" }
             /\ tree[WalkOrder[2]] = Absent }

NoTree == [ f \in Files |-> Absent ]

\* collect_indexable_files_pub: the files of the tree handed to the vector
\* rebuild, in walk order.
collect_indexable_files_pub(tree) ==
    SelectSeq(WalkOrder,
              LAMBDA f : /\ tree[f] # Absent
                         /\ ~GitIgnored(f)
                         /\ ~is_build_or_output_dir(f)
                         /\ FileSize(tree[f]) > 0
                         /\ FileSize(tree[f]) <= collect_max_file_size
                         /\ is_supported_extension(Extension(f)))

\* The elements of a sequence.
Range(seq) == { seq[i] : i \in 1..Len(seq) }

\* WorkspaceVectorState: no entry in the map, and a new empty state.
NotLoaded ==
    [ loaded |-> FALSE, index |-> {}, metadata |-> << >>, next_key |-> 0,
      content_hashes |-> NoHashes, dirty |-> FALSE, last_save |-> 0 ]
NewVectorState(at) == [ NotLoaded EXCEPT !.loaded = TRUE, !.last_save = at ]

\* The three files of a workspace's vector directory: absent, and as
\* save_workspace_state writes them.
NoVectorFiles ==
    [ exists |-> FALSE, index |-> {}, metadata |-> << >>, content_hashes |-> NoHashes ]
SavedFiles(state) ==
    [ exists |-> TRUE, index |-> state.index, metadata |-> state.metadata,
      content_hashes |-> state.content_hashes ]

\* meta.keys().copied().max().unwrap_or(0)
MaxKey(keys) == IF keys = {} THEN 0 ELSE CHOOSE m \in keys : \A k \in keys : k <= m

\* get_or_create_workspace: the state in the map, or one loaded from the files
\* (next_key is one past the largest key of metadata.json), or a new one.
get_or_create_workspace(w, at) ==
    IF vector_workspaces[w].loaded THEN vector_workspaces[w]
    ELSE IF vector_files[w].exists
         THEN [ loaded |-> TRUE,
                index |-> vector_files[w].index,
                metadata |-> vector_files[w].metadata,
                next_key |-> MaxKey(DOMAIN vector_files[w].metadata) + 1,
                content_hashes |-> vector_files[w].content_hashes,
                dirty |-> FALSE,
                last_save |-> at ]
         ELSE NewVectorState(at)

\* The keys whose metadata names the path.
KeysOfPaths(metadata, paths) == { k \in DOMAIN metadata : metadata[k].abs_path \in paths }

\* A removal that takes the keys out of the metadata map only.
RemoveKeysFromMetadata(state, keys) ==
    [ state EXCEPT !.metadata = [ k \in DOMAIN state.metadata \ keys |-> state.metadata[k] ] ]

\* index.remove(key) and metadata.remove(&key) for each key
RemoveKeys(state, keys) ==
    [ state EXCEPT !.index = state.index \ keys,
                   !.metadata = [ k \in DOMAIN state.metadata \ keys |-> state.metadata[k] ] ]

\* The chunks of the files to embed, in order, each with its file.
RECURSIVE AllChunks(_, _)
AllChunks(files_to_embed, tree) ==
    IF files_to_embed = << >> THEN << >>
    ELSE LET f == Head(files_to_embed)
             chunks == ChunkTable[tree[f]]
         IN  [ i \in 1..Len(chunks) |->
                 [ abs_path |-> f, line_start |-> chunks[i].line_start,
                   line_end |-> chunks[i].line_end ] ]
             \o AllChunks(Tail(files_to_embed), tree)

\* The outcomes of the fallible calls that are followed: the batches (from 0)
\* whose embed_texts call fails, the chunks (from 1) whose index.add fails,
\* and whether save_workspace_state succeeds.
VecOutcome(embed_bad, add_bad, saved) ==
    [ embed_bad |-> embed_bad, add_bad |-> add_bad, saved |-> saved ]
VecOutcomes ==
    { VecOutcome({}, {}, TRUE), VecOutcome({ 0 }, {}, TRUE),
      VecOutcome({}, { 2 }, TRUE), VecOutcome({}, {}, FALSE) }

\* The batch (from 0) of chunk p (from 1).
BatchOf(p, batch) == (p - 1) \div batch

\* The key chunk p is given: next_key advances once per embedding, so the key
\* is next_key plus the number of chunks before p whose batch was embedded
\* (a batch before the batch of p is a full one).
KeyAt(next_key, p, batch, embed_bad) ==
    next_key + (p - 1)
        - batch * Cardinality({ b \in embed_bad : b < BatchOf(p, batch) })

\* The embedding loop: per batch one embed_texts call, whose failure skips
\* the batch; per embedding a key, which is used up whether or not index.add
\* succeeds, and metadata.insert when it did.  An entry records the
\* embed_texts call it came from: the operation and the batch.
AddVectors(state, chunks, batch, embed_bad, add_bad, operation) ==
    LET embedded == { p \in 1..Len(chunks) : BatchOf(p, batch) \notin embed_bad }
        added == embedded \ add_bad
        new_keys == { KeyAt(state.next_key, p, batch, embed_bad) : p \in added }
        chunk_of == [ k \in new_keys |->
                        CHOOSE p \in added : KeyAt(state.next_key, p, batch, embed_bad) = k ]
    IN  [ state EXCEPT
            !.index = state.index \cup new_keys,
            !.metadata =
                [ k \in DOMAIN state.metadata \cup new_keys |->
                    IF k \in new_keys
                    THEN [ abs_path |-> chunks[chunk_of[k]].abs_path,
                           line_start |-> chunks[chunk_of[k]].line_start,
                           line_end |-> chunks[chunk_of[k]].line_end,
                           call |-> << operation, BatchOf(chunk_of[k], batch) >> ]
                    ELSE state.metadata[k] ],
            !.next_key = state.next_key + Cardinality(embedded) ]

\* The keys handed out between two states of a workspace.
HandedOut(before, after) == before.next_key .. (after.next_key - 1)

\* What a vector operation that has ended did: its result (-1 for an error),
\* whether it returned without touching the state, the keys it handed out and
\* the highest key handed out before it, the tree it was given, the states
\* in memory when the process exited, whether it wrote the files, and the
\* workspaces whose save failed in a flush.
VecDone(op, w, ret, skipped, handed, high_before, tree, at_exit) ==
    [ op |-> op, ws |-> w, ret |-> ret, skipped |-> skipped, handed |-> handed,
      high_before |-> high_before, tree |-> tree, at_exit |-> at_exit, wrote |-> FALSE,
      failed |-> {} ]

\* The same of an operation in which save_workspace_state wrote the files.
Wrote(done) == [ done EXCEPT !.wrote = TRUE ]
NoExit == [ w \in VecWorkspaces |-> NotLoaded ]
VecNone == VecDone("none", "w1", 0, FALSE, {}, 0 - 1, NoTree, NoExit)

\* The number of the operation under way among the calls made so far.
CallsSoFar == vcalls.rebuild + vcalls.reindex

\* The guard of a workspace is taken.
GuardNeverTaken(guard) == FALSE
GuardTaken(guard) == guard = "true"

NoVecArgs == [ ws |-> "w1", tree |-> NoTree, abs_path |-> << >>, content |-> Absent,
               change_type |-> "none" ]

\* index_workspace_vectors up to its compare-exchange, on the files collected
\* from the tree: the guard is created when missing; when it is taken the
\* call returns 0.
IndexWorkspaceVectors(t, w, tree) ==
    /\ vpc[t] = "idle"
    /\ vcalls.rebuild < MaxRebuildCalls
    /\ vcalls' = [vcalls EXCEPT !.rebuild = @ + 1]
    /\ IF GuardTaken(indexing_workspaces[w])
       THEN /\ vlast' = VecDone("index_workspace_vectors", w, 0, TRUE, {},
                                assigned_high[w], tree, NoExit)
            /\ UNCHANGED << indexing_workspaces, vpc, vargs >>
       ELSE /\ indexing_workspaces' = [indexing_workspaces EXCEPT ![w] = "true"]
            /\ vpc' = [vpc EXCEPT ![t] = "inner"]
            /\ vargs' = [vargs EXCEPT ![t] = [ NoVecArgs EXCEPT !.ws = w, !.tree = tree ]]
            /\ vlast' = VecNone
    /\ UNCHANGED << vector_workspaces, vector_files, rvpc, rvargs, vnow,
                    assigned_high >>
    /\ UNCHANGED outside_vectors

\* The files whose hash differs from the recorded one, in order.
VecFilesToEmbed(files, old_hashes, tree) ==
    SelectSeq(files, LAMBDA f : ~(f \in DOMAIN old_hashes /\ old_hashes[f] = Sha256(tree[f])))

\* The recorded paths that changed or are no longer among the files.
VecPathsToRemove(files, old_hashes, tree) ==
    (Range(VecFilesToEmbed(files, old_hashes, tree)) \cap DOMAIN old_hashes)
        \cup (DOMAIN old_hashes \ Range(files))

\* index_workspace_vectors_inner under the write lock of the state, and the
\* reset of the guard when the call returns.
InnerSteps(t) ==
    /\ vpc[t] = "inner"
    /\ LET w == vargs[t].ws
           tree == vargs[t].tree
           files == collect_indexable_files_pub(tree)
           state == get_or_create_workspace(w, vnow)
           files_to_embed == VecFilesToEmbed(files, state.content_hashes, tree)
           paths_to_remove == VecPathsToRemove(files, state.content_hashes, tree)
           all_chunks == AllChunks(files_to_embed, tree)
           n == Len(all_chunks)
       IN  IF files_to_embed = << >> /\ paths_to_remove = {}
           THEN /\ vector_workspaces' = [vector_workspaces EXCEPT ![w] = state]
                /\ vlast' = VecDone("index_workspace_vectors", w,
                                    Cardinality(DOMAIN state.metadata), FALSE, {},
                                    assigned_high[w], tree, NoExit)
                /\ UNCHANGED << vector_files, assigned_high >>
           ELSE \E outcome \in VecOutcomes :
                  LET embed_bad == outcome.embed_bad
                      add_bad == outcome.add_bad
                      saved == outcome.saved
                      removed == RemoveKeys(state, KeysOfPaths(state.metadata, paths_to_remove))
                      embedded == AddVectors(removed, all_chunks, EMBED_BATCH_SIZE,
                                             embed_bad, add_bad, CallsSoFar)
                      updated == [ embedded EXCEPT !.content_hashes =
                                     [ f \in Range(files) |-> Sha256(tree[f]) ] ]
                      handed == HandedOut(removed, embedded)
                  IN  /\ vector_workspaces' = [vector_workspaces EXCEPT ![w] = updated]
                      /\ vector_files' = IF saved
                                         THEN [vector_files EXCEPT ![w] = SavedFiles(updated)]
                                         ELSE vector_files
                      /\ assigned_high' = [assigned_high EXCEPT ![w] =
                            IF handed = {} THEN @ ELSE MaxKey(handed \cup { @ })]
                      /\ vlast' =
                            IF saved
                            THEN Wrote(VecDone("index_workspace_vectors", w,
                                               Cardinality(DOMAIN updated.metadata),
                                               FALSE, handed, assigned_high[w], tree, NoExit))
                            ELSE VecDone("index_workspace_vectors", w, 0 - 1,
                                         FALSE, handed, assigned_high[w], tree, NoExit)
    /\ indexing_workspaces' = [indexing_workspaces EXCEPT ![vargs[t].ws] = "false"]
    /\ vpc' = [vpc EXCEPT ![t] = "idle"]
    /\ vargs' = [vargs EXCEPT ![t] = NoVecArgs]
    /\ UNCHANGED << rvpc, rvargs, vnow, vcalls >>

\* The same, in the daemon.
IndexWorkspaceVectorsInner(t) ==
    /\ InnerSteps(t)
    /\ UNCHANGED outside_vectors

\* The single-file updates that are followed.
RvWorkspaces == { "w1" }
RvContents == { "c2" }
RvChangeTypes == { "modify", "remove" }

\* reindex_file_vectors, the skip while a full rebuild holds the guard.
ReindexFileVectorsCheck(r, w, abs_path, content, change_type) ==
    /\ rvpc[r] = "idle"
    /\ vcalls.reindex < MaxReindexCalls
    /\ vcalls' = [vcalls EXCEPT !.reindex = @ + 1]
    /\ IF GuardTaken(indexing_workspaces[w])
       THEN /\ vlast' = VecDone("reindex_file_vectors", w, 0, TRUE, {},
                                assigned_high[w], NoTree, NoExit)
            /\ UNCHANGED << rvpc, rvargs >>
       ELSE /\ rvpc' = [rvpc EXCEPT ![r] = "apply"]
            /\ rvargs' = [rvargs EXCEPT ![r] =
                  [ NoVecArgs EXCEPT !.ws = w, !.abs_path = abs_path,
                                     !.content = content, !.change_type = change_type ]]
            /\ vlast' = VecNone
    /\ UNCHANGED << vector_workspaces, vector_files, indexing_workspaces, vpc, vargs,
                    vnow, assigned_high >>
    /\ UNCHANGED outside_vectors

\* reindex_file_vectors from the lookup of the state on: the hash test, the
\* removal of the file's vectors, the embedding, and the throttled save.
ApplySteps(r) ==
    /\ rvpc[r] = "apply"
    /\ LET w == rvargs[r].ws
           abs_path == rvargs[r].abs_path
           content == rvargs[r].content
           change_type == rvargs[r].change_type
           state == vector_workspaces[w]
           embeds == change_type # "remove" /\ Lines(content) # << >>
           unchanged == /\ embeds
                        /\ abs_path \in DOMAIN state.content_hashes
                        /\ state.content_hashes[abs_path] = Sha256(content)
       IN  IF ~state.loaded \/ unchanged
           THEN /\ vlast' = VecDone("reindex_file_vectors", w, 0, TRUE, {},
                                    assigned_high[w], NoTree, NoExit)
                /\ UNCHANGED << vector_workspaces, vector_files, assigned_high >>
           ELSE \E outcome \in VecOutcomes :
                  LET embed_bad == outcome.embed_bad
                      add_bad == outcome.add_bad
                      saved == outcome.saved
                      hashed ==
                        [ state EXCEPT !.content_hashes =
                            IF embeds
                            THEN [ f \in DOMAIN state.content_hashes \cup { abs_path } |->
                                     IF f = abs_path THEN Sha256(content)
                                     ELSE state.content_hashes[f] ]
                            ELSE IF change_type = "remove"
                            THEN [ f \in DOMAIN state.content_hashes \ { abs_path } |->
                                     state.content_hashes[f] ]
                            ELSE state.content_hashes ]
                      removed == RemoveKeys(hashed, KeysOfPaths(hashed.metadata, { abs_path }))
                      chunks == IF embeds
                                THEN AllChunks(<< abs_path >>, [ f \in Files |-> content ])
                                ELSE << >>
                      n == Len(chunks)
                      batch == IF n = 0 THEN 1 ELSE n
                      bad == IF embeds THEN embed_bad ELSE {}
                      embedded == AddVectors(removed, chunks, batch, bad, add_bad,
                                             CallsSoFar)
                      handed == HandedOut(removed, embedded)
                      due == vnow - state.last_save >= SAVE_THROTTLE_SECS
                      after == IF due /\ saved
                               THEN [ embedded EXCEPT !.dirty = FALSE, !.last_save = vnow ]
                               ELSE [ embedded EXCEPT !.dirty = TRUE ]
                  IN  /\ vector_workspaces' = [vector_workspaces EXCEPT ![w] = after]
                      /\ vector_files' = IF due /\ saved
                                         THEN [vector_files EXCEPT ![w] = SavedFiles(embedded)]
                                         ELSE vector_files
                      /\ assigned_high' = [assigned_high EXCEPT ![w] =
                            IF handed = {} THEN @ ELSE MaxKey(handed \cup { @ })]
                      /\ vlast' =
                            IF due /\ saved
                            THEN Wrote(VecDone("reindex_file_vectors", w, 0,
                                               FALSE, handed, assigned_high[w], NoTree, NoExit))
                            ELSE VecDone("reindex_file_vectors", w,
                                         IF due THEN 0 - 1 ELSE 0,
                                         FALSE, handed, assigned_high[w], NoTree, NoExit)
    /\ rvpc' = [rvpc EXCEPT ![r] = "idle"]
    /\ rvargs' = [rvargs EXCEPT ![r] = NoVecArgs]
    /\ UNCHANGED << indexing_workspaces, vpc, vargs, vnow, vcalls >>

\* The same, in the daemon.
ReindexFileVectorsApply(r) ==
    /\ ApplySteps(r)
    /\ UNCHANGED outside_vectors

\* ensure_workspace_loaded: get_or_create_workspace for its effect on the map.
EnsureWorkspaceLoaded(w) ==
    /\ ~vector_workspaces[w].loaded
    /\ vector_workspaces' = [vector_workspaces EXCEPT ![w] = get_or_create_workspace(w, vnow)]
    /\ vlast' = VecDone("ensure_workspace_loaded", w, 0, FALSE, {}, assigned_high[w],
                        NoTree, NoExit)
    /\ UNCHANGED << vector_files, indexing_workspaces, vpc, vargs, rvpc, rvargs, vnow,
                    assigned_high, vcalls >>
    /\ UNCHANGED outside_vectors

\* main: a shutdown signal ends axum::serve and main returns; the next start
\* builds a new EmbeddingManager with empty maps.  No call is under way.
ShutdownAndRestart ==
    /\ \A t \in VecTasks : vpc[t] = "idle"
    /\ \A r \in RvTasks : rvpc[r] = "idle"
    /\ vcalls.restart < MaxRestarts
    /\ vcalls' = [vcalls EXCEPT !.restart = @ + 1]
    /\ vector_workspaces' = [ w \in VecWorkspaces |-> NotLoaded ]
    /\ indexing_workspaces' = [ w \in VecWorkspaces |-> "absent" ]
    /\ vlast' = VecDone("shutdown", "w1", 0, FALSE, {}, 0 - 1, NoTree, vector_workspaces)
    /\ UNCHANGED << vector_files, vpc, vargs, rvpc, rvargs, vnow, assigned_high >>
    /\ UNCHANGED outside_vectors

\* The save throttle's time passes.
TickSteps ==
    /\ vnow + SAVE_THROTTLE_SECS <= MaxVecTime
    /\ vnow' = vnow + SAVE_THROTTLE_SECS
    /\ vlast' = VecNone
    /\ UNCHANGED << vector_workspaces, vector_files, indexing_workspaces, vpc, vargs,
                    rvpc, rvargs, assigned_high, vcalls >>

\* The same, in the daemon.
VecTick ==
    /\ TickSteps
    /\ UNCHANGED outside_vectors

\* The workspaces flush_all saves: the loaded ones whose dirty bit is set.
DirtyWorkspaces ==
    { w \in VecWorkspaces : vector_workspaces[w].loaded /\ vector_workspaces[w].dirty }

\* A flush that saves every loaded workspace.
FlushesEveryLoaded == { w \in VecWorkspaces : vector_workspaces[w].loaded }

\* The workspaces a flush is to save.
FlushCandidates == DirtyWorkspaces

\* flush_all: under the write lock of each state in turn, a dirty state is
\* saved; when the save succeeds the dirty bit is cleared and last_save set,
\* when it fails (the workspaces in fail) a warning is logged and the state
\* is left alone.
FlushSteps(fail) ==
    /\ vcalls.flush < MaxFlushCalls
    /\ vcalls' = [vcalls EXCEPT !.flush = @ + 1]
    /\ LET saves == FlushCandidates \ fail
       IN  /\ vector_workspaces' =
                [ w \in VecWorkspaces |->
                    IF w \in saves
                    THEN [ vector_workspaces[w] EXCEPT !.dirty = FALSE, !.last_save = vnow ]
                    ELSE vector_workspaces[w] ]
           /\ vector_files' =
                [ w \in VecWorkspaces |->
                    IF w \in saves THEN SavedFiles(vector_workspaces[w])
                    ELSE vector_files[w] ]
           /\ vlast' = [ VecDone("flush_all", "w1", 0, FALSE, {}, 0 - 1, NoTree, NoExit)
                          EXCEPT !.wrote = saves # {},
                                 !.failed = FlushCandidates \cap fail ]
           /\ written_now' = [ w \in VecWorkspaces |-> written_now[w] \/ w \in saves ]
    /\ UNCHANGED << indexing_workspaces, vpc, vargs, rvpc, rvargs, vnow, assigned_high >>

\* flush_all in a daemon whose saves are recorded.
FlushAll(fail) ==
    /\ FlushSteps(fail)
    /\ UNCHANGED outside_vectors_saves

\* A full rebuild's second half, an incremental update's second half and
\* the passing of time, with the saves recorded.
RecordedInner(t) ==
    /\ InnerSteps(t)
    /\ written_now' = [written_now EXCEPT ![vargs[t].ws] = @ \/ vlast'.wrote]
    /\ UNCHANGED outside_vectors_saves
RecordedApply(r) ==
    /\ ApplySteps(r)
    /\ written_now' = [written_now EXCEPT ![rvargs[r].ws] = @ \/ vlast'.wrote]
    /\ UNCHANGED outside_vectors_saves
RecordedTick ==
    /\ TickSteps
    /\ written_now' = [ w \in VecWorkspaces |-> FALSE ]
    /\ UNCHANGED outside_vectors_saves

\* A new EmbeddingManager over an empty vectors directory.
VecInit ==
    /\ vector_workspaces = [ w \in VecWorkspaces |-> NotLoaded ]
    /\ vector_files = [ w \in VecWorkspaces |-> NoVectorFiles ]
    /\ indexing_workspaces = [ w \in VecWorkspaces |-> "absent" ]
    /\ vpc = [ t \in VecTasks |-> "idle" ]
    /\ vargs = [ t \in VecTasks |-> NoVecArgs ]
    /\ rvpc = [ r \in RvTasks |-> "idle" ]
    /\ rvargs = [ r \in RvTasks |-> NoVecArgs ]
    /\ vnow = 0
    /\ assigned_high = [ w \in VecWorkspaces |-> 0 - 1 ]
    /\ vcalls = [ rebuild |-> 0, reindex |-> 0, restart |-> 0, flush |-> 0 ]
    /\ vlast = VecNone

\* No vector call is under way.
NoVectorCall ==
    /\ \A t \in VecTasks : vpc[t] = "idle"
    /\ \A r \in RvTasks : rvpc[r] = "idle"

\* The vector index of one workspace: full rebuilds one after another,
\* single-file updates, loading, and a restart of the process.
VectorNext ==
    \/ \E tree \in Trees("w1") : NoVectorCall /\ IndexWorkspaceVectors(1, "w1", tree)
    \/ IndexWorkspaceVectorsInner(1)
    \/ \E r \in RvTasks, w \in RvWorkspaces, f \in Files, c \in RvContents,
          ct \in RvChangeTypes : NoVectorCall /\ ReindexFileVectorsCheck(r, w, f, c, ct)
    \/ \E r \in RvTasks : ReindexFileVectorsApply(r)
    \/ \E w \in RvWorkspaces : EnsureWorkspaceLoaded(w)
    \/ ShutdownAndRestart
    \/ VecTick

\* Concurrent full vector rebuilds of two workspaces.
VectorGuardNext ==
    \/ \E t \in VecTasks, w \in VecWorkspaces : \E tree \in Trees(w) :
          IndexWorkspaceVectors(t, w, tree)
    \/ \E t \in VecTasks : IndexWorkspaceVectorsInner(t)

\* The trees of the first workspace without its file of many chunks.
RaceTrees == { tree \in Trees("w1") : tree[WalkOrder[1]] = Absent }

\* Full rebuilds and single-file updates of one workspace running side by
\* side, each call on its own blocking thread.
VectorRaceNext ==
    \/ \E tree \in RaceTrees : IndexWorkspaceVectors(1, "w1", tree)
    \/ IndexWorkspaceVectorsInner(1)
    \/ \E r \in RvTasks, w \in RvWorkspaces, f \in Files, c \in RvContents,
          ct \in RvChangeTypes : ReindexFileVectorsCheck(r, w, f, c, ct)
    \/ \E r \in RvTasks : ReindexFileVectorsApply(r)

\* The saves of the vector states: full rebuilds and incremental updates of
\* two workspaces, flushes, and the passing of time.
FlushTrees(w) ==
    IF w = "w1" THEN RaceTrees ELSE { tree \in Trees(w) : tree[WalkOrder[1]] = "c1" }
\* The content of a file that has been emptied.
EmptyText == ""
FlushContents == RvContents \cup { EmptyText }
FlushNext ==
    \/ \E w \in VecWorkspaces : \E tree \in FlushTrees(w) :
          NoVectorCall /\ IndexWorkspaceVectors(1, w, tree)
    \/ RecordedInner(1)
    \/ \E r \in RvTasks, w \in RvWorkspaces, f \in Files, c \in FlushContents,
          ct \in RvChangeTypes : NoVectorCall /\ ReindexFileVectorsCheck(r, w, f, c, ct)
    \/ \E r \in RvTasks : RecordedApply(r)
    \/ \E fail \in SUBSET VecWorkspaces : FlushAll(fail)
    \/ RecordedTick

\* ------------------------------------- removal of the indexed workspace

\* The id of the indexed workspace in the embedding manager.
IndexedWorkspace == "w1"

\* The remove_workspace handler: stop_watching, remove_index (the map
\* entries and the index directory), EmbeddingManager::remove_workspace (the
\* map entry and the vectors directory), the removal from the catalog, and
\* the WorkspaceRemoved event.  Tasks under way keep the IndexState, the
\* writer and the arguments they hold.
RemoveWorkspaceRoute ==
    /\ ~ws_removed
    /\ ix_watched' = FALSE
    /\ indexes' = 0
    /\ content_hashes' = NoHashes
    /\ indexed_workspaces' = FALSE
    /\ docs' = {}
    /\ vector_workspaces' = [vector_workspaces EXCEPT ![IndexedWorkspace] = NotLoaded]
    /\ vector_files' = [vector_files EXCEPT ![IndexedWorkspace] = NoVectorFiles]
    /\ ws_removed' = TRUE
    /\ synced' = FALSE
    /\ written' = [ f \in Files |-> FALSE ]
    /\ last' = Step("RemoveWorkspaceRoute", "success", << "WorkspaceRemoved" >>)
    /\ UNCHANGED << fs, pending, now, last_reindex, is_indexing, writers, writer_lock,
                    ipc, ist, ilocals, rpc, rst, rargs >>
    /\ UNCHANGED << indexing_workspaces, vpc, vargs, rvpc, rvargs, vnow,
                    assigned_high, vcalls, vlast >>
    /\ UNCHANGED << wsvars, pvvars, pervars, statvars, wtvars, sockvars, limvars, chunkvars,
                    savevars, cbvars, keyvars, evvars >>

\* A workspace that is indexed and removed: the rebuild of both indexes over
\* the files as they are, and the removal; a removed workspace gets no new
\* request.
RemovalNext ==
    \/ \E t \in IndexTasks : ~ws_removed /\ ~RebuildUnfinished /\ HttpIndexWorkspace(t)
    \/ \E t \in IndexTasks : IwLookup(t)
    \/ \E t \in IndexTasks : IwCreate(t)
    \/ \E t \in IndexTasks : IwCas(t)
    \/ \E t \in IndexTasks : IwWalk(t)
    \/ \E t \in IndexTasks : IwWriter(t)
    \/ \E t \in IndexTasks : IwCommit(t)
    \/ ~ws_removed /\ NoVectorCall /\ IndexWorkspaceVectors(1, IndexedWorkspace, fs)
    \/ IndexWorkspaceVectorsInner(1)
    \/ RemoveWorkspaceRoute


\* ------------------------------------------------ the watcher registry

MaxWatched == 3
WatchIds == 1..MaxWatched

\* Values of VYOTIQ_ENABLE_FILE_WATCHER; Unset is the variable not being set.
Unset == "<unset>"
EnvValues == { Unset, "0", "1", "false", "FALSE", "False", "true", "no", "" }

\* str::to_lowercase on these values.
ToLowercase(v) ==
    CASE v = "FALSE" -> "false"
      [] v = "False" -> "false"
      [] OTHER -> v

\* Config::from_env: unset is true, otherwise v != "0" && lowercase(v) != "false".
ParseEnableFileWatcher(v) ==
    IF v = Unset THEN TRUE ELSE v # "0" /\ ToLowercase(v) # "false"

\* FileWatcherManager::start_watching: nothing when the id is watched
\* already; otherwise the watcher is built and inserted, or notify fails.
start_watching(ws, id, built) ==
    IF id \in ws THEN ws ELSE IF built THEN ws \cup { id } ELSE ws

\* The task main spawns after binding: returns when the setting is off,
\* otherwise starts a watcher for every listed workspace.
RestoreWatchers(built) ==
    /\ restore_pc = "pending"
    /\ restore_pc' = "done"
    /\ watchers' = IF ~enable_file_watcher THEN watchers
                    ELSE watchers \cup (listed \cap built)
    /\ UNCHANGED << env_file_watcher, enable_file_watcher, listed >>
    /\ UNCHANGED outside_watchers

\* POST /workspaces: the catalog entry, then start_watching.
CreateWorkspaceRoute(id, built) ==
    /\ id \notin listed
    /\ listed' = listed \cup { id }
    /\ watchers' = start_watching(watchers, id, built)
    /\ UNCHANGED << env_file_watcher, enable_file_watcher, restore_pc >>
    /\ UNCHANGED outside_watchers

\* POST /workspaces/:id/activate: start_watching unless is_watching.
ActivateWorkspaceRoute(id, built) ==
    /\ id \in listed
    /\ watchers' = IF id \notin watchers THEN start_watching(watchers, id, built)
                    ELSE watchers
    /\ UNCHANGED << env_file_watcher, enable_file_watcher, listed, restore_pc >>
    /\ UNCHANGED outside_watchers

\* DELETE /workspaces/:id: stop_watching, then the removal from the catalog
\* (an unknown id fails there, after stop_watching).
RemoveWatchedWorkspace(id) ==
    /\ watchers' = watchers \ { id }
    /\ listed' = listed \ { id }
    /\ UNCHANGED << env_file_watcher, enable_file_watcher, restore_pc >>
    /\ UNCHANGED outside_watchers

\* The daemon stops and starts again in the same environment.
RestartDaemon ==
    /\ restore_pc = "done"
    /\ restore_pc' = "pending"
    /\ watchers' = {}
    /\ UNCHANGED << env_file_watcher, enable_file_watcher, listed >>
    /\ UNCHANGED outside_watchers

WatcherNext ==
    \/ \E built \in SUBSET WatchIds : RestoreWatchers(built)
    \/ \E id \in WatchIds, built \in BOOLEAN : CreateWorkspaceRoute(id, built)
    \/ \E id \in WatchIds, built \in BOOLEAN : ActivateWorkspaceRoute(id, built)
    \/ \E id \in WatchIds : RemoveWatchedWorkspace(id)
    \/ RestartDaemon


\* ------------------------------------------------ one WebSocket client

MaxQueued == 2
MaxForwarded == 2
EventWorkspaces == { "w1", "w2" }
NoEvent == "<none>"

\* handle_socket before its tasks have run: connected, nothing subscribed.
SockInit ==
    /\ subscribed = {}
    /\ ever_subscribed = FALSE
    /\ rx = << >>
    /\ spc = "recv"
    /\ held = NoEvent
    /\ forwarded = << >>

\* The filter of the send task: an event goes on unless the set is non-empty
\* and does not contain the event's workspace_id.
PassesFilter(subs, workspace_id) == ~(subs # {} /\ workspace_id \notin subs)

\* event_tx.send of an event of workspace w while the client is connected.
Publish(w) ==
    /\ spc # "closed"
    /\ Len(rx) < MaxQueued
    /\ rx' = Append(rx, w)
    /\ UNCHANGED << subscribed, ever_subscribed, spc, held, forwarded >>
    /\ UNCHANGED outside_socket

\* The command subscribe_workspace with a workspace_id.
SubscribeWorkspace(w) ==
    /\ spc # "closed"
    /\ subscribed' = subscribed \cup { w }
    /\ ever_subscribed' = TRUE
    /\ UNCHANGED << rx, spc, held, forwarded >>
    /\ UNCHANGED outside_socket

\* The command unsubscribe_workspace with a workspace_id.
UnsubscribeWorkspace(w) ==
    /\ spc # "closed"
    /\ subscribed' = subscribed \ { w }
    /\ UNCHANGED << ever_subscribed, rx, spc, held, forwarded >>
    /\ UNCHANGED outside_socket

\* rx.recv returns an event and the filter is applied under the lock.
SendRecv ==
    /\ spc = "recv"
    /\ rx # << >>
    /\ rx' = Tail(rx)
    /\ IF PassesFilter(subscribed, Head(rx))
          THEN spc' = "send" /\ held' = Head(rx)
          ELSE spc' = "recv" /\ held' = NoEvent
    /\ UNCHANGED << subscribed, ever_subscribed, forwarded >>
    /\ UNCHANGED outside_socket

\* sender.send of the held event: it reaches the client, or the send fails
\* and the task ends.
SendForward(ok) ==
    /\ spc = "send"
    /\ Len(forwarded) < MaxForwarded
    /\ IF ok THEN spc' = "recv" /\ forwarded' = Append(forwarded, held)
             ELSE spc' = "closed" /\ forwarded' = forwarded
    /\ held' = NoEvent
    /\ UNCHANGED << subscribed, ever_subscribed, rx >>
    /\ UNCHANGED outside_socket

SocketNext ==
    \/ \E w \in EventWorkspaces : Publish(w)
    \/ \E w \in EventWorkspaces : SubscribeWorkspace(w)
    \/ \E w \in EventWorkspaces : UnsubscribeWorkspace(w)
    \/ SendRecv
    \/ \E ok \in BOOLEAN : SendForward(ok)


\* ------------------------------------------ the semantic-search limit

MaxSmallLimit == 40
SEMANTIC_LIMIT_DEFAULT == 20
SEMANTIC_LIMIT_MAX == 1000

\* The "limit" member of the body: absent, a JSON integer, a JSON number
\* with a fraction (n its integer part), or a string.
NoLimit == [ kind |-> "absent", n |-> 0 ]
BodyLimits ==
    { NoLimit }
    \cup [ kind : { "integer" },
           n : ((0 - 2)..MaxSmallLimit)
               \cup ((SEMANTIC_LIMIT_MAX - 2)..(SEMANTIC_LIMIT_MAX + 2)) ]
    \cup [ kind : { "fraction", "string" }, n : { 0, 5 } ]

\* body.get("limit").and_then(as_u64): a non-negative JSON integer, or None.
NoU64 == 0 - 1
as_u64(v) == IF v.kind = "integer" /\ v.n >= 0 THEN v.n ELSE NoU64

Min(a, b) == IF a < b THEN a ELSE b

\* The handler: unwrap_or(20), then min(1000).
RouteLimit(v) ==
    Min(IF as_u64(v) = NoU64 THEN SEMANTIC_LIMIT_DEFAULT ELSE as_u64(v),
        SEMANTIC_LIMIT_MAX)

\* k of the search contract: min(limit, 1000).
SearchK(limit) == Min(limit, SEMANTIC_LIMIT_MAX)

\* No request.
LimIdle ==
    /\ body_limit = NoLimit
    /\ qpc = "idle"
    /\ passed_limit = NoU64
    /\ knn_k = NoU64

\* A request has arrived with its body.
LimRequest ==
    /\ body_limit \in BodyLimits
    /\ qpc = "route"
    /\ passed_limit = NoU64
    /\ knn_k = NoU64

\* The handler up to its call of vector_semantic_search.
SemanticSearchRoute ==
    /\ qpc = "route"
    /\ passed_limit' = RouteLimit(body_limit)
    /\ qpc' = "search"
    /\ UNCHANGED << body_limit, knn_k >>
    /\ UNCHANGED outside_request

\* vector_semantic_search and EmbeddingManager::semantic_search up to
\* index.search(query_vec, k).
VectorSemanticSearch ==
    /\ qpc = "search"
    /\ knn_k' = SearchK(passed_limit)
    /\ qpc' = "knn"
    /\ UNCHANGED << body_limit, passed_limit >>
    /\ UNCHANGED outside_request

LimitNext ==
    \/ SemanticSearchRoute
    \/ VectorSemanticSearch


\* ------------------------------------------------ chunk_text by itself

MaxSegments == 4
SegmentLens == { 0, 1, 3 }
ChunkContents == UNION { [ 1..n -> SegmentLens ] : n \in 1..MaxSegments }
ChunkMaxChars == { 0, 2, 4, 6, 100 }
ChunkOverlaps == { 0, 2, 5, 100 }
ChunkMaxChunks == { 0, 1, 2, 100 }

\* No call of chunk_text.
ChunkIdle ==
    /\ ck_content = EmptyContent
    /\ ck_max_chars = 0
    /\ ck_overlap = 0
    /\ ck_max_chunks = 0
    /\ ck_done = TRUE
    /\ ck_chunks = << >>

\* A call of chunk_text with its arguments.
ChunkCall ==
    /\ ck_content \in ChunkContents
    /\ ck_max_chars \in ChunkMaxChars
    /\ ck_overlap \in ChunkOverlaps
    /\ ck_max_chunks \in ChunkMaxChunks
    /\ ck_done = FALSE
    /\ ck_chunks = << >>

\* chunk_text runs and returns.
ApplyChunkText ==
    /\ ~ck_done
    /\ ck_chunks' = ChunkTextOf(ck_content, ck_max_chars, ck_overlap, ck_max_chunks)
    /\ ck_done' = TRUE
    /\ UNCHANGED << ck_content, ck_max_chars, ck_overlap, ck_max_chunks >>
    /\ UNCHANGED outside_chunking

ChunkNext == ApplyChunkText


\* ------------------------------------------------ the specifications

vars == << ixvars, wsvars, pvvars, vecvars, extravars, statvars >>

\* Only the changing file may exist.
OneFileTree == \A f \in Files \ ChangingFiles : fs[f] = Absent

\* The workspace's catalog entry as create_workspace wrote it; nothing has
\* been reconciled.
StatInit ==
    /\ catalog_indexed = FALSE
    /\ reconciled = FALSE

\* The indexed workspace is registered and watched.
RmInit ==
    /\ ix_watched = TRUE
    /\ ws_removed = FALSE

\* The daemon before any request: the setting parsed, the catalog as loaded
\* from workspaces.json, no watcher, the restoring task spawned.
WtInit ==
    /\ env_file_watcher \in EnvValues
    /\ enable_file_watcher = ParseEnableFileWatcher(env_file_watcher)
    /\ listed \in SUBSET WatchIds
    /\ watchers = {}
    /\ restore_pc = "pending"

\* The watcher registry left aside: the setting unset, nothing listed, the
\* restoring task over.
WtIdle ==
    /\ env_file_watcher = Unset
    /\ enable_file_watcher = ParseEnableFileWatcher(env_file_watcher)
    /\ listed = {}
    /\ watchers = {}
    /\ restore_pc = "done"

\* The state outside the subsystems at the start of the daemon.
\* Nothing has been written to the vectors directory.
SaveInit == written_now = [ w \in VecWorkspaces |-> FALSE ]

CoreInit == PerInit /\ StatInit /\ RmInit /\ SockInit /\ SaveInit /\ KeyInit
BaseInit == CoreInit /\ CbInit /\ EvIdle
QuietInit == BaseInit /\ WtIdle /\ ChunkIdle
ExtraInit == QuietInit /\ LimIdle

AllInit == IxInit /\ WsInit /\ PvInit /\ VecInit /\ ExtraInit

Init == AllInit /\ OneFileTree

\* The same, over an empty workspace tree.
EmptyTreeInit == Init /\ \A f \in Files : fs[f] = Absent

\* The daemon at startup with its setting and its catalog, over an empty tree.
WatcherInit ==
    /\ IxInit /\ WsInit /\ PvInit /\ VecInit /\ BaseInit /\ WtInit /\ LimIdle /\ ChunkIdle
    /\ \A f \in Files : fs[f] = Absent

\* A call of chunk_text, over an empty tree.
ChunkInit ==
    /\ IxInit /\ WsInit /\ PvInit /\ VecInit /\ BaseInit /\ WtIdle /\ LimIdle /\ ChunkCall
    /\ \A f \in Files : fs[f] = Absent

\* A batch of debounced events for a new watcher, over an empty tree.
BatchInit ==
    /\ IxInit /\ WsInit /\ PvInit /\ VecInit /\ CoreInit /\ WtIdle /\ ChunkIdle /\ LimIdle
    /\ BatchCall /\ EvIdle
    /\ \A f \in Files : fs[f] = Absent

\* The daemon with its batch size set, before any background indexing task,
\* over an empty tree.
EventsInit ==
    /\ IxInit /\ WsInit /\ PvInit /\ VecInit /\ CoreInit /\ CbInit /\ WtIdle /\ ChunkIdle
    /\ LimIdle /\ EvStart
    /\ \A f \in Files : fs[f] = Absent

\* A semantic-search request, over an empty tree.
LimitInit ==
    /\ IxInit /\ WsInit /\ PvInit /\ VecInit /\ QuietInit /\ LimRequest
    /\ \A f \in Files : fs[f] = Absent

Next == IxNext
Spec == Init /\ [][Next]_vars
SpecTriggers == Init /\ [][TriggerNext]_vars
SpecCatalog == EmptyTreeInit /\ [][CatalogNext]_vars
SpecPersist == EmptyTreeInit /\ [][PersistNext]_vars
SpecRemoval == Init /\ [][RemovalNext]_vars
SpecWatchers == WatcherInit /\ [][WatcherNext]_vars
SpecSocket == EmptyTreeInit /\ [][SocketNext]_vars
SpecLimit == LimitInit /\ [][LimitNext]_vars
SpecChunks == ChunkInit /\ [][ChunkNext]_vars
SpecVectorRace == EmptyTreeInit /\ [][VectorRaceNext]_vars

\* One file request has arrived; nothing else is under way.
FilesInit ==
    /\ IxInit /\ (\A f \in Files : fs[f] = Absent)
    /\ WsInit
    /\ RequestInit
    /\ VecInit
    /\ ExtraInit
SpecFiles == FilesInit /\ [][FilesNext]_vars

\* A workspace with a second file that stays as it is while the first one is
\* written and deleted: full rebuilds on request, the watcher and
\* reindex_file, at one instant of the clock.
TwoFilesInit == AllInit /\ \A f \in Files \ ChangingFiles : fs[f] # Absent
TwoFilesNext ==
    \/ \E t \in IndexTasks : ~RebuildUnfinished /\ HttpIndexWorkspace(t)
    \/ \E t \in IndexTasks : IwLookup(t)
    \/ \E t \in IndexTasks : IwCreate(t)
    \/ \E t \in IndexTasks : IwCas(t)
    \/ \E t \in IndexTasks : IwWalk(t)
    \/ \E t \in IndexTasks : IwWriter(t)
    \/ \E t \in IndexTasks : IwCommit(t)
    \/ \E batch \in SUBSET Files, sweep \in BOOLEAN : WatcherCallback(batch, sweep)
    \/ \E r \in ReindexTasks : RfLookup(r)
    \/ \E r \in ReindexTasks : RfLock(r)
    \/ \E r \in ReindexTasks : RfCheck(r)
    \/ \E r \in ReindexTasks : RfWriter(r)
    \/ \E r \in ReindexTasks : RfCommit(r)
    \/ \E f \in ChangingFiles, c \in Contents : WriteFile(f, c)
    \/ \E f \in ChangingFiles : DeleteFile(f)
SpecTwoFiles == TwoFilesInit /\ [][TwoFilesNext]_vars

\* The vector index of two workspaces, over an empty lexical side.
SpecVectors == EmptyTreeInit /\ [][VectorNext]_vars
SpecFlush == EmptyTreeInit /\ [][FlushNext]_vars
SpecCooldown == EmptyTreeInit /\ [][CooldownNext]_vars
SpecBatch == BatchInit /\ [][BatchNext]_vars
SpecKeys == EmptyTreeInit /\ [][KeysNext]_vars
SpecEvents == EventsInit /\ [][EventsNext]_vars
SpecVectorGuard == EmptyTreeInit /\ [][VectorGuardNext]_vars


\* ------------------------------------------------------- properties

\* C1: at any instant at most one execution of index_workspace is between its
\* successful is_indexing compare-exchange and its end, whatever the
\* interleaving of the triggers, also when they arrive before the IndexState
\* of the workspace exists.
C1_AtMostOneRebuild ==
    Cardinality({ t \in IndexTasks : PastCas(t) }) <= 1

\* C2: an execution of index_workspace that acquired the is_indexing flag
\* leaves it false when it ends, on every exit path: a flag that is set is the
\* flag of an execution that is still between its compare-exchange and its end.
C2_FlagReleasedAtEnd ==
    \A s \in 1..Len(is_indexing) :
        is_indexing[s] => \E t \in IndexTasks : PastCas(t) /\ ist[t] = s

\* C3: at most one index writer is open on the workspace at any instant, and
\* reindex_file holds no open writer while a full rebuild of the workspace is
\* between its compare-exchange and its end.
C3_WritersExclusive ==
    /\ Cardinality(writers) <= 1
    /\ \A r \in ReindexTasks :
          << "reindex", r >> \in writers => ~ \E t \in IndexTasks : PastCas(t)

\* C4: every document of the lexical index has an entry for its absolute path
\* in the content-hash catalog, and the entry equals the document's
\* content_hash.
C4_CatalogCoversIndex ==
    \A d \in docs :
        /\ d.path \in DOMAIN content_hashes
        /\ content_hashes[d.path] = d.content_hash

\* No event is waiting for the watcher and no reindex_file call is under way.
NoIncrementalPending ==
    /\ \A f \in Files : pending[f] = "none"
    /\ \A r \in ReindexTasks : rpc[r] = "idle"

\* C5: once a full reconciliation has completed with no file change since (and
\* every earlier file event has been handled or discarded), the paths that
\* have a document in the lexical index are the workspace files that pass the
\* path filter.
C5_ReconciledIndexMatchesFiles ==
    (synced /\ NoIncrementalPending) => { d.path : d \in docs } = WalkFiles

\* Nothing is left to happen for file f: no event waits, no task runs, and the
\* cooldown of f's last accepted event has elapsed.
Quiescent(f) ==
    /\ NoIncrementalPending
    /\ \A t \in IndexTasks : ipc[t] = "idle"
    /\ LET at == last_reindex[StripPrefix(f, WorkspaceRoot)]
       IN  at = NoInstant \/ now - at >= REINDEX_COOLDOWN_MS

\* C6: content written to an indexable file of a watched, indexed workspace,
\* and not written again, is found by a lexical search for it once debounce
\* and cooldown have elapsed and nothing is left running.
C6_WrittenContentSearchable ==
    \A f \in Files :
        (written[f] /\ f \in WalkFiles /\ Quiescent(f)) => f \in LexicalSearch(fs[f])

\* C7: index_workspace run again after a completed full reconciliation, with
\* no file change and no incremental update in between, returns from its
\* comparison: it opens no writer, commits nothing, writes no sidecar, sends
\* neither IndexingStarted nor IndexingCompleted, and leaves the documents and
\* the content-hash catalog as they are.
C7_CleanRerunWritesNothing ==
    [][ \A t \in IndexTasks :
          (synced /\ ipc[t] = "walk" /\ ipc'[t] # "walk") =>
              /\ ipc'[t] = "idle"
              /\ writers' = writers
              /\ docs' = docs
              /\ content_hashes' = content_hashes
              /\ last'.events = << >> ]_vars

\* A clean re-run has returned from its comparison.
C7_Witness ==
    /\ last.op = "IwWalk"
    /\ last.clean
    /\ last.outcome = "up_to_date"
    /\ docs # {}

\* C8: an index request that arrives while an earlier trigger's rebuild has
\* not finished (its task may not have set the flag yet) is answered with
\* status already_indexing.
C8_SecondAnsweredAlreadyIndexing ==
    (last.op = "HttpIndexWorkspace" /\ last.busy) => last.outcome = "already_indexing"

\* C9: no two registered workspaces have the same canonical root, also when
\* create_workspace calls for the same root run concurrently.
C9_RootsDistinct ==
    \A i, j \in DOMAIN workspaces :
        i # j => canonicalize(workspaces[i].path) # canonicalize(workspaces[j].path)

\* The canonical root of the workspace the file requests name.
RequestRootCanonical == canonicalize(RequestRoot).path

\* C10: a path that validate_path returns is, with all its links resolved,
\* the canonical root of the workspace or a descendant of it.
C10_ValidatedPathInsideRoot ==
    (freq.done /\ freq.validated.err = "none") =>
        LET resolved == WriteTarget(freq.validated.path)
        IN  resolved.ok /\ StartsWith(resolved.path, RequestRootCanonical)

\* A path with "." and ".." applied to the text alone.
RECURSIVE LexicalNormal(_, _)
LexicalNormal(done, rest) ==
    IF rest = << >> THEN done
    ELSE IF Head(rest) = ".."
         THEN LexicalNormal(IF done = << >> THEN done ELSE Parent(done), Tail(rest))
         ELSE LexicalNormal(Append(done, Head(rest)), Tail(rest))

\* The request path names no link and leads out of the workspace root.
LeadsOutside(file_path) ==
    /\ file_path # << >>
    /\ \A i \in 1..Len(file_path) : file_path[i] \notin { "out", "new", "in" }
    /\ ~StartsWith(LexicalNormal(<< >>, RequestRoot \o file_path), RequestRoot)

\* C11: a file request whose path leads outside the workspace root fails with
\* PathNotAllowed and HTTP 403, whether or not the target or its parent
\* exists, and nothing is read or written.
C11_OutsideIsForbidden ==
    (freq.done /\ LeadsOutside(freq.path)) =>
        /\ freq.err = "PathNotAllowed"
        /\ freq.status = 403
        /\ ~freq.touched.ok


\* C12: within a workspace a vector id is handed out at most once: every id
\* an operation hands out is greater than every id handed out in the
\* workspace before it, by a full rebuild or an incremental update, whether
\* or not its vector was added and whether or not it was deleted since, also
\* across a reload of the workspace's vector state from its files.
C12_IdsNeverReused ==
    \A k \in vlast.handed : k > vlast.high_before

C14_PathIdsContiguousOneCall ==
    \A w \in VecWorkspaces : \A f \in Files :
        LET metadata == vector_workspaces[w].metadata
            keys == KeysOfPaths(metadata, { f })
        IN  \A j, k \in keys :
              /\ \A i \in j..k : i \in keys
              /\ metadata[j].call = metadata[k].call

\* A full vector rebuild of workspace w is past its compare-exchange.
VectorRebuildActive(w) == \E t \in VecTasks : vpc[t] = "inner" /\ vargs[t].ws = w

\* C15: per workspace at most one index_workspace_vectors call is past its
\* compare-exchange; a call made while one is active for the same workspace
\* returns 0 and leaves the index, the metadata, the content hashes, the next
\* id and the files as they are.
C15_OneVectorRebuildPerWorkspace ==
    /\ [](\A w \in VecWorkspaces :
            Cardinality({ t \in VecTasks : vpc[t] = "inner" /\ vargs[t].ws = w }) <= 1)
    /\ [][ \A t \in VecTasks, w \in VecWorkspaces : \A tree \in Trees(w) :
              (VectorRebuildActive(w) /\ IndexWorkspaceVectors(t, w, tree)) =>
                  /\ vlast'.ret = 0
                  /\ vlast'.skipped
                  /\ vpc' = vpc
                  /\ vector_workspaces' = vector_workspaces
                  /\ vector_files' = vector_files ]_vars

\* A call has returned 0 while a rebuild of its workspace is active.
C15_Witness ==
    /\ vlast.op = "index_workspace_vectors"
    /\ vlast.skipped
    /\ vlast.ret = 0
    /\ VectorRebuildActive(vlast.ws)

\* C16: when the process has exited on a shutdown signal, the files of every
\* workspace with unsaved incremental vector changes hold the state the
\* workspace had in memory: its index, its metadata and its content hashes.
C16_ShutdownFlushesDirty ==
    vlast.op = "shutdown" =>
        \A w \in VecWorkspaces :
            (vlast.at_exit[w].loaded /\ vlast.at_exit[w].dirty) =>
                vector_files[w] = SavedFiles(vlast.at_exit[w])

\* C17: when the removal event of a deleted file that was indexed has been
\* processed by the incremental update, the lexical index has no document for
\* its absolute path, the content-hash catalog has no entry for it, and no
\* vector metadata names it.
C17_RemovalClearsEntries ==
    [][ \A r \in ReindexTasks :
          LET abs_path == JoinPath(WorkspaceRoot, rargs[r].file_path)
          IN  ( /\ RfCommit(r)
                /\ rargs[r].change_type = "remove"
                /\ fs[abs_path] = Absent
                /\ abs_path \in DOMAIN content_hashes
                /\ last'.outcome = "committed" ) =>
                  /\ abs_path \notin { d.path : d \in docs' }
                  /\ abs_path \notin DOMAIN content_hashes'
                  /\ \A w \in VecWorkspaces :
                        KeysOfPaths(vector_workspaces'[w].metadata, { abs_path }) = {} ]_vars

\* C18: a reindex_file call for path p, at every step and with any change
\* type, leaves unchanged every lexical document whose path differs from p
\* and every content-hash catalog entry of a path other than p.
C18_OtherPathsUntouched ==
    [][ \A r \in ReindexTasks :
          LET p == JoinPath(WorkspaceRoot, rargs[r].file_path)
          IN  (RfLookup(r) \/ RfLock(r) \/ RfCheck(r) \/ RfWriter(r) \/ RfCommit(r)) =>
                /\ { d \in docs' : d.path # p } = { d \in docs : d.path # p }
                /\ \A f \in Files \ { p } :
                      /\ (f \in DOMAIN content_hashes') = (f \in DOMAIN content_hashes)
                      /\ f \in DOMAIN content_hashes =>
                            content_hashes'[f] = content_hashes[f] ]_vars

\* A removal has been committed for one file: its document is gone while the
\* document and the catalog entry of another file are still there.
C18_Witness ==
    /\ last.op = "RfCommit"
    /\ last.outcome = "committed"
    /\ \E p, q \in Files :
          /\ p # q
          /\ p \in DOMAIN content_hashes
          /\ p \notin { d.path : d \in docs }
          /\ q \in DOMAIN content_hashes
          /\ q \in { d.path : d \in docs }

\* C21: the content of workspaces.json is never a partially written
\* catalog, and whenever no catalog call is under way and every call so far
\* has returned successfully it is the in-memory catalog.
C21_FileIsCatalog ==
    /\ target_link # 0 => inodes[target_link].complete
    /\ ((\A m \in MutCalls : mpc[m] = "idle") /\ ~mfailed /\ mcalls > 0) =>
          /\ target_link # 0
          /\ inodes[target_link].content = workspaces

\* C22: the indexed flag of the index status and the indexed field of the
\* workspace's catalog entry are true if and only if a full reconciliation of
\* the workspace has completed, also while its first full reconciliation is
\* in progress.
C22_IndexedIffReconciled ==
    /\ StatusIndexed <=> reconciled
    /\ catalog_indexed <=> reconciled

\* C23: once the removal of a workspace has completed, the workspace has no
\* watcher, no lexical index state, no indexed marker and no vector state,
\* in memory or on disk, and none reappears, also when a rebuild was under
\* way at the removal.
C23_RemovedStaysRemoved ==
    ws_removed =>
        /\ ~ix_watched
        /\ indexes = 0
        /\ ~indexed_workspaces
        /\ ~vector_workspaces[IndexedWorkspace].loaded
        /\ ~vector_files[IndexedWorkspace].exists

\* C24: when the file-watcher setting is "0" or "false", no watcher exists,
\* whether at the restoration on startup, at the creation of a workspace or
\* at its activation.
C24_DisabledMeansNoWatcher ==
    env_file_watcher \in { "0", "false" } => watchers = {}

\* C25: filtering by workspace is opt-in: a client that has never sent
\* subscribe_workspace has every received event passed on, and for a client
\* that has subscribed an event is passed on only if its workspace_id is in
\* the subscription set at that moment (so none of W after unsubscribing W).
C25_FilterOptIn ==
    [][ /\ (rx' # rx /\ rx # << >> /\ rx' = Tail(rx) /\ ~ever_subscribed) => held' = Head(rx)
        /\ (rx' # rx /\ rx # << >> /\ rx' = Tail(rx) /\ ever_subscribed /\ held' # NoEvent)
              => Head(rx) \in subscribed ]_vars

\* C26: the limit passed on to the vector search is within 1..1000 for every
\* request value: 20 when absent, 1 for 0, 1000 for anything above 1000.
C26_LimitClamped ==
    qpc \in { "search", "knn" } =>
        /\ passed_limit \in 1..SEMANTIC_LIMIT_MAX
        /\ body_limit.kind = "absent" => passed_limit = SEMANTIC_LIMIT_DEFAULT
        /\ (body_limit.kind = "integer" /\ body_limit.n = 0) => passed_limit = 1
        /\ (body_limit.kind = "integer" /\ body_limit.n > SEMANTIC_LIMIT_MAX)
              => passed_limit = SEMANTIC_LIMIT_MAX
        /\ qpc = "knn" => knn_k \in 1..SEMANTIC_LIMIT_MAX

\* The lines of the content chunk_text was called with, and of what it
\* returned: whether each range is a valid 1-indexed inclusive range, each
\* text the lines of its range, the first range starts at line 1, no range
\* starts beyond the line after the end of the one before, every line is in
\* some range.
CalledLines == StrLines(ck_content)
RangesValid ==
    \A k \in 1..Len(ck_chunks) :
        /\ 1 <= ck_chunks[k].line_start
        /\ ck_chunks[k].line_start <= ck_chunks[k].line_end
        /\ ck_chunks[k].line_end <= Len(CalledLines)
TextsAreRanges ==
    \A k \in 1..Len(ck_chunks) :
        ck_chunks[k].text = SubSeq(CalledLines, ck_chunks[k].line_start, ck_chunks[k].line_end)
FirstStartsAtOne == ck_chunks # << >> => ck_chunks[1].line_start = 1
NoGaps ==
    \A k \in 1..(Len(ck_chunks) - 1) :
        /\ ck_chunks[k + 1].line_start <= ck_chunks[k].line_end + 1
        /\ ck_chunks[k + 1].line_end > ck_chunks[k].line_end
EveryLineCovered ==
    \A l \in 1..Len(CalledLines) :
        \E k \in 1..Len(ck_chunks) :
            ck_chunks[k].line_start <= l /\ l <= ck_chunks[k].line_end

\* The texts of the first k chunks put together, each without the lines the
\* chunks before it already gave.
RECURSIVE DeOverlapped(_, _)
DeOverlapped(chunks, k) ==
    IF k = 0 THEN << >>
    ELSE IF k = 1 THEN chunks[1].text
    ELSE DeOverlapped(chunks, k - 1)
         \o SubSeq(chunks[k].text,
                   chunks[k - 1].line_end - chunks[k].line_start + 2,
                   Len(chunks[k].text))

\* C27 (as stated): for every content and all parameters the ranges are
\* valid, the texts are the lines of the ranges, the first chunk starts at
\* line 1, there is no gap, and the chunks cover every line, so that
\* removing the overlaps gives the original line sequence.
C27_ChunksReproduceContent ==
    (ck_done /\ ck_content # EmptyContent) =>
        /\ RangesValid /\ TextsAreRanges /\ FirstStartsAtOne /\ NoGaps
        /\ EveryLineCovered
        /\ DeOverlapped(ck_chunks, Len(ck_chunks)) = CalledLines

\* C27 (amended): the ranges are valid, the texts are the lines of the
\* ranges, the first chunk starts at line 1 and there is no gap, so that the
\* chunks reproduce the lines up to the end of the last chunk; they cover
\* every line when fewer than max_chunks chunks are returned.
C27_ChunksReproducePrefix ==
    ck_done =>
        /\ RangesValid /\ TextsAreRanges /\ FirstStartsAtOne /\ NoGaps
        /\ ck_chunks # << >> =>
              DeOverlapped(ck_chunks, Len(ck_chunks))
                = SubSeq(CalledLines, 1, ck_chunks[Len(ck_chunks)].line_end)
        /\ (ck_content # EmptyContent /\ Len(ck_chunks) < ck_max_chunks) =>
              /\ EveryLineCovered
              /\ DeOverlapped(ck_chunks, Len(ck_chunks)) = CalledLines

\* Three chunks with an overlap between the first two, below max_chunks.
C27_Witness ==
    /\ ck_done
    /\ Len(ck_chunks) = 3
    /\ Len(ck_chunks) < ck_max_chunks
    /\ ck_chunks[2].line_start <= ck_chunks[1].line_end
    /\ ck_chunks[3].line_end = Len(CalledLines)

C29_AtMostMaxChunks ==
    ck_done => Len(ck_chunks) <= ck_max_chunks

\* C30: a single-file vector update never changes the index, the metadata,
\* the content hashes or the next key of a workspace's vector state at a
\* moment when the rebuild flag of that workspace is set.
C30_NoUpdateWhileRebuilding ==
    [][ \A w \in RvWorkspaces :
          ( /\ \E r \in RvTasks : rvpc[r] = "apply" /\ rvpc'[r] = "idle" /\ rvargs[r].ws = w
            /\ \/ vector_workspaces'[w].index # vector_workspaces[w].index
               \/ vector_workspaces'[w].metadata # vector_workspaces[w].metadata
               \/ vector_workspaces'[w].content_hashes # vector_workspaces[w].content_hashes
               \/ vector_workspaces'[w].next_key # vector_workspaces[w].next_key )
          => ~GuardTaken(indexing_workspaces[w]) ]_vars

\* A callback of the debouncer runs in this step.
CallbackRuns == cb_count' = cb_count + 1

\* The callback sent a FileChanged event for the relative path.
SentFileChanged(out, relative) ==
    \E i \in 1..Len(out) : out[i].what = "FileChanged" /\ out[i].path = relative

\* An event of the path was accepted less than a cooldown ago.
InsideWindow(relative) ==
    /\ cb_accepted[relative] # NoInstant
    /\ cb_now - cb_accepted[relative] < REINDEX_COOLDOWN_MS

\* C33: two events of a path that the watcher accepts are at least 5 s
\* apart; an event inside the 5 s window of the path is discarded and leaves
\* the window as it is, also in a callback that sweeps the tracker.
C33_AcceptedEventsApart ==
    [][ CallbackRuns =>
          \A r \in CbRelPaths :
              InsideWindow(r) =>
                  /\ ~SentFileChanged(cb_out', r)
                  /\ cb_tracker'[r] = cb_tracker[r]
                  /\ cb_accepted'[r] = cb_accepted[r] ]_vars

\* After the sweep of the 51st callback, a callback accepts the event of one
\* path and discards that of another path, accepted half a cooldown before.
C33_Witness ==
    /\ cb_count > CLEANUP_EVERY
    /\ \E r \in CbRelPaths :
          /\ SentFileChanged(cb_out, r)
          /\ cb_accepted[r] = cb_now
    /\ \E r \in CbRelPaths :
          /\ InsideWindow(r)
          /\ cb_accepted[r] < cb_now
          /\ ~SentFileChanged(cb_out, r)
          /\ \E e \in 1..Len(cb_events) :
                JoinPath(WorkspaceRoot, r) \in cb_events[e].paths

\* The events of a batch that name the path, and those of them that are a
\* create, a modify or a remove.
EventsOf(events, p) == { i \in 1..Len(events) : p \in events[i].paths }
ChangeEventsOf(events, p) ==
    { i \in EventsOf(events, p) : events[i].kind \in { "Create", "Modify", "Remove" } }
Latest(indices) == CHOOSE i \in indices : \A j \in indices : j <= i

\* Some component of the path is the name of an excluded directory.
UnderExcludedDirectory(p) == \E i \in 1..Len(p) : p[i] \in EXCLUDED_DIRECTORY_NAMES

\* The places of the callback's output that are about the relative path.
EmissionsOf(out, what, relative) ==
    { i \in 1..Len(out) : out[i].what = what /\ out[i].path = relative }

\* Exactly one FileChanged and one reindex_file for the path, in this order,
\* both with the change type.
YieldsOnce(out, relative, change_type) ==
    \E i, j \in 1..Len(out) :
        /\ EmissionsOf(out, "FileChanged", relative) = { i }
        /\ EmissionsOf(out, "reindex_file", relative) = { j }
        /\ i < j
        /\ out[i].change_type = change_type
        /\ out[j].change_type = change_type

\* What a callback does with its batch, path by path, the change type being
\* that of the event LastOf picks.
BatchHandled(LastOf(_, _)) ==
    CallbackRuns =>
        \A p \in CbPaths :
            LET relative == StripPrefix(p, WorkspaceRoot)
            IN  IF /\ ChangeEventsOf(cb_events', p) # {}
                   /\ ~UnderExcludedDirectory(p)
                   /\ ~InsideWindow(relative)
                THEN YieldsOnce(cb_out', relative,
                                classify_debounced_event(cb_events'[LastOf(cb_events', p)]))
                ELSE /\ EmissionsOf(cb_out', "FileChanged", relative) = {}
                     /\ EmissionsOf(cb_out', "reindex_file", relative) = {}

LastEventOf(events, p) == Latest(EventsOf(events, p))
LastChangeEventOf(events, p) == Latest(ChangeEventsOf(events, p))

Sends(type) == ev_last'.type = type
SendsTerminator == Sends("IndexingCompleted") \/ Sends("IndexingError")
\* An IndexingStarted has been sent and no terminator since.
RunOpen == ev_log.started /\ ev_log.ends = 0
\* The parts of the bracketing: an IndexingStarted comes first or after
\* exactly one terminator of the one before; a run has no second terminator;
\* IndexingProgress and IndexingCompleted come inside an open run; the
\* indexed values of a run increase and stay within the total.
StartedAfterOneTerminator == Sends("IndexingStarted") => (ev_log.started => ev_log.ends = 1)
NoSecondTerminator == SendsTerminator /\ ev_log.started => ev_log.ends = 0
InsideRun == Sends("IndexingProgress") \/ Sends("IndexingCompleted") => RunOpen
ProgressIncreases ==
    Sends("IndexingProgress") =>
        /\ ev_last'.indexed > ev_log.indexed
        /\ ev_last'.indexed <= ev_last'.total

\* C38: the lexical indexing events of a workspace form well-bracketed runs:
\* every IndexingStarted is followed, before the next one, by exactly one
\* IndexingCompleted or IndexingError, every IndexingProgress and every
\* IndexingCompleted lies inside a run, and the indexed values of the
\* IndexingProgress events of a run increase strictly and never exceed the
\* total.
C38_EventsWellBracketed ==
    [][ /\ StartedAfterOneTerminator
        /\ NoSecondTerminator
        /\ InsideRun
        /\ ProgressIncreases ]_vars

\* C35: every file of the workspace on disk is the file of at most one
\* document of the lexical index.
C35_OneDocumentPerFile ==
    \A f \in key_files :
        Cardinality({ d \in key_docs : d.file = f }) <= 1

\* C36: every chunk chunk_text returns has at most max_chars bytes, counting
\* each of its lines with one newline, unless it is a single line that is
\* by itself longer than max_chars; chunks that begin with lines kept as
\* overlap are no exception.
C36_ChunkWithinMaxChars ==
    ck_done =>
        \A i \in 1..Len(ck_chunks) :
            \/ SumChars(ck_chunks[i].text) <= ck_max_chars
            \/ /\ Len(ck_chunks[i].text) = 1
               /\ ck_chunks[i].text[1] + 1 > ck_max_chars

\* No catalog call is under way.
NoCatalogCall ==
    /\ \A c \in CreateCalls : cpc[c] = "idle"
    /\ \A a \in ActivateCalls : apc[a] = "idle"

\* C37: when activate_workspace has failed with WorkspaceNotFound, the
\* catalog is as the calls before it left it: every workspace has the
\* is_active and last_accessed that were persisted, the catalog in memory
\* being equal to the persisted one.
C37_FailedActivateChangesNothing ==
    (/\ wlast = Returned("activate_workspace", wlast.id, "WorkspaceNotFound")
     /\ NoCatalogCall)
        => workspaces = workspaces_file

\* An incremental update that goes on to change the state ends in this step.
UpdateEnds(r) == rvpc[r] = "apply" /\ rvpc'[r] = "idle" /\ ~vlast'.skipped

\* C31: an incremental vector update that changes the state leaves the dirty
\* bit set unless it saves; it saves only when no save of the workspace's
\* state (by an update, a flush or a full rebuild) was made less than 10 s
\* before, and a save leaves the dirty bit cleared.
C31_SaveOnlyAfterThrottle ==
    [][ \A r \in RvTasks :
          UpdateEnds(r) =>
            LET w == rvargs[r].ws
            IN  /\ vlast'.wrote => ~written_now[w]
                /\ vlast'.wrote => ~vector_workspaces'[w].dirty
                /\ ~vlast'.wrote => vector_workspaces'[w].dirty ]_vars

\* A flush ends in this step.
FlushEnds == vcalls'.flush = vcalls.flush + 1

ChunksPresent(metadata, path, c) ==
    \A i \in 1..Len(ChunkTable[c]) :
        \E k \in DOMAIN metadata :
            /\ metadata[k].abs_path = path
            /\ metadata[k].line_start = ChunkTable[c][i].line_start
            /\ metadata[k].line_end = ChunkTable[c][i].line_end

\* C39: in a loaded vector state, a path recorded in the content-hash map
\* with the hash of a non-empty content has the chunks of that content in
\* the metadata map.
C39_HashedMeansEmbedded ==
    \A w \in VecWorkspaces :
        vector_workspaces[w].loaded =>
            \A path \in DOMAIN vector_workspaces[w].content_hashes :
                \A c \in VecContents :
                    (/\ vector_workspaces[w].content_hashes[path] = Sha256(c)
                     /\ Lines(c) # << >>)
                        => ChunksPresent(vector_workspaces[w].metadata, path, c)

\* C40: a loaded workspace whose dirty bit is false, with no vector
\* operation under way, holds in memory what its files on disk hold.
C40_CleanMeansSaved ==
    \A w \in VecWorkspaces :
        (/\ NoVectorCall
         /\ vector_workspaces[w].loaded
         /\ ~vector_workspaces[w].dirty
         /\ vector_files[w].exists)
            => vector_files[w] = SavedFiles(vector_workspaces[w])

\* C19: a file larger than max_file_size has no document in the lexical
\* index and no entry in its content-hash catalog, and after a full vector
\* rebuild over a tree it has no vector and no entry in the vector content
\* hashes.
C19_OversizeNeverIndexed ==
    /\ \A f \in Files :
          (fs[f] # Absent /\ FileSize(fs[f]) > max_file_size) =>
              /\ f \notin { d.path : d \in docs }
              /\ f \notin DOMAIN content_hashes
    /\ (vlast.op = "index_workspace_vectors" /\ ~vlast.skipped) =>
          \A f \in Files :
              (vlast.tree[f] # Absent /\ FileSize(vlast.tree[f]) > max_file_size) =>
                  /\ f \notin DOMAIN vector_workspaces[vlast.ws].content_hashes
                  /\ KeysOfPaths(vector_workspaces[vlast.ws].metadata, { f }) = {}

\* C20: while no activate_workspace call is under way at most one workspace
\* is active.
C20_AtMostOneActive ==
    (\A a \in ActivateCalls : apc[a] = "idle") =>
        Cardinality({ i \in DOMAIN workspaces : workspaces[i].is_active }) <= 1

====
